---- MODULE Spec2Model ----
(***************************************************************************)
(* A model of the Endorphin template parser.                               *)
(*                                                                         *)
(*   SpecClassify  the identifier classification pass of parseJS           *)
(*                 (src/expression/index.ts) walking an expression tree.   *)
(*   SpecParse     the statement parsers (tagBody, emptyBody,              *)
(*                 chooseStatement, elementStatement, ...) reading a       *)
(*                 stream of markup lexemes.                               *)
(*   SpecAttr      attributeValue / attributeValueExpression (tag.ts)      *)
(*                 scanning the characters of an attribute value.          *)
(*   SpecEmbed     expression(scanner) and parseJS (src/expression/        *)
(*                 index.ts) moving the locations of an embedded           *)
(*                 expression into the coordinates of the document.        *)
(*   SpecRaw       tagText (src/elements/utils.ts) and closeTag (tag.ts)   *)
(*                 capturing the characters of a style or script block.    *)
(*   SpecOpen      openTag (tag.ts) sorting the attributes it consumed     *)
(*                 into the directives and the attributes of the tag.      *)
(*   SpecScan      openTag, closeTag (tag.ts) and innerHTML                *)
(*                 (inner-html.ts) tried at a position of the scanner.     *)
(*   SpecToken     the tokenizer of expressions (the acorn plugin)         *)
(*                 reading names.                                          *)
(*   SpecLoops     the loops of the parsers under weak fairness.           *)
(***************************************************************************)
EXTENDS Integers, Sequences, FiniteSets, TLC

VARIABLES
    \* --- expression classification -------------------------------------
    ast,        \* the expression tree, nodes listed in pre-order
    source,     \* the tree as the JS parser produced it (never changed)
    helpers,    \* options.helpers: the helper-name set
    cursor,     \* index of the next node the walker visits
    pass,       \* 1: the pass run by parseJS; 2: the pass applied again
    first,      \* the tree as the first pass left it (<<>> until then)
    \* --- attribute values ----------------------------------------------
    raw,        \* the characters of the attribute value, quotes included
    apos,       \* scanner.pos (0-based, as in the code)
    astart,     \* `start` of attributeValueExpression
    elements,   \* `elements` of attributeValueExpression
    avalue,     \* what attributeValue returns
    astate,     \* "idle", "value", "interpolate", "done" or "error"
    \* --- markup ---------------------------------------------------------
    alphabet,   \* the alphabet the lexemes of the template are drawn from
    la,         \* the lexeme the parser met last
    consumed,   \* how many lexemes the scanner has passed
    callStack,  \* the calls of the statement parsers in progress
    pstate,     \* "idle", "run", "ok", "error" (thrown) or "crash" (TypeError)
    perror,     \* the error thrown: its message and the tag names it gives
    ret,        \* the statement most recently returned by a statement parser
    unclosed,   \* the open tags read and not yet matched by a close tag
    \* --- embedded expressions -------------------------------------------
    document,   \* the characters of the document
    epos,       \* scanner.pos when expression(scanner) is called
    eoffset,    \* options.offset of parseJS
    enodes,     \* the nodes of the tree JSParser returned, in walking order
    evisit,     \* index of the next node the walker visits
    estate,     \* "idle", "start", "walk", "done" or "error"
    eloc,       \* the location of the error parseJS throws
    einner,     \* err.loc: where JSParser failed, in the coordinates of `code`
    \* --- raw text blocks -------------------------------------------------
    rawText,    \* the characters that follow the open tag of the block
    rawPos,     \* scanner.pos, counted from the end of the open tag
    rawState,   \* "idle", "text", "done" or "error"
    rawValue,   \* the value of the literal tagText returns
    rawError,   \* the message of the error thrown
    \* --- open tags -------------------------------------------------------
    openName,   \* the name of the tag openTag reads
    consumedAttributes, \* what consumeAttributes returned
    parsedTag,  \* the directives and the attributes of the tag
    openState,  \* "idle", "consumed", "done" or "error"
    \* --- the scanner and the tokenizer ----------------------------------
    input,      \* the characters read: scanner.string, or this.input
    spos,       \* scanner.pos, or this.pos of the tokenizer
    entry,      \* the position when the function was called
    called,     \* the function called: "openTag", "closeTag", "innerHTML"
    depth,      \* innerHTML: the variable `stack`, the braces open
    outcome,    \* what the function returned or threw
    emitted,    \* the tokens the tokenizer has finished
    sstate      \* "idle", "ready", "inner", "returned", "thrown", "token", "end"

classifyVars == <<ast, source, helpers, cursor, pass, first>>

attrVars == <<raw, apos, astart, elements, avalue, astate>>

parseVars == <<alphabet, la, consumed, callStack, pstate, perror, ret, unclosed>>

embedVars == <<document, epos, eoffset, enodes, evisit, estate, eloc, einner>>

rawVars == <<rawText, rawPos, rawState, rawValue, rawError>>

openVars == <<openName, consumedAttributes, parsedTag, openState>>

scanVars == <<input, spos, entry, called, depth, outcome, emitted, sstate>>

vars == <<ast, source, helpers, cursor, pass, first,
          raw, apos, astart, elements, avalue, astate,
          alphabet, la, consumed, callStack, pstate, perror, ret, unclosed,
          document, epos, eoffset, enodes, evisit, estate, eloc, einner,
          rawText, rawPos, rawState, rawValue, rawError,
          openName, consumedAttributes, parsedTag, openState,
          input, spos, entry, called, depth, outcome, emitted, sstate>>

(***************************************************************************)
(* Bounds                                                                  *)
(***************************************************************************)
\* How many arrow functions may enclose the core expression.
MaxNest == 2

\* How many characters a quoted attribute value may hold between its quotes.
MaxInterior == 6

\* How many lexemes a template may hold before its end.
MaxLexemes == 6

\* How many characters an unquoted attribute value may hold, the keywords
\* true, false, null and undefined apart.
MaxUnquoted == 3

\* How many characters a document may hold before an embedded expression.
MaxBefore == 3

\* How many characters an embedded expression may hold between its braces.
MaxCode == 3

\* How many pieces of text and markup a style or script block may hold.
MaxPieces == 3

\* How many attributes an open tag may hold.
MaxAttributes == 2

(***************************************************************************)
(* The parts of the state a specification leaves alone                     *)
(***************************************************************************)
NoNode  == [type |-> "none"]
NoError == [message |-> "", names |-> {}]
NoLexeme == [kind |-> "none"]

ClassifyIdle ==
    /\ ast = <<>> /\ source = <<>> /\ helpers = {}
    /\ cursor = 1 /\ pass = 2 /\ first = <<>>

AttrIdle ==
    /\ raw = <<>>
    /\ apos = 0
    /\ astart = 0
    /\ elements = <<>>
    /\ avalue = NoNode
    /\ astate = "idle"

ParseIdle ==
    /\ alphabet = "none"
    /\ la = NoLexeme
    /\ consumed = 0
    /\ callStack = <<>>
    /\ pstate = "idle"
    /\ perror = NoError
    /\ ret = NoNode
    /\ unclosed = <<>>

NoPosition == [line |-> 0, column |-> 0]

EmbedIdle ==
    /\ document = <<>>
    /\ epos = 0
    /\ eoffset = NoPosition
    /\ enodes = <<>>
    /\ evisit = 1
    /\ estate = "idle"
    /\ eloc = NoPosition
    /\ einner = NoPosition

RawIdle ==
    /\ rawText = <<>>
    /\ rawPos = 0
    /\ rawState = "idle"
    /\ rawValue = <<>>
    /\ rawError = ""

NoTag == [directives |-> <<>>, attributes |-> <<>>]

OpenIdle ==
    /\ openName = <<>>
    /\ consumedAttributes = <<>>
    /\ parsedTag = NoTag
    /\ openState = "idle"

NoOutcome == [kind |-> "none"]

ScanIdle ==
    /\ input = <<>>
    /\ spos = 0
    /\ entry = 0
    /\ called = "none"
    /\ depth = 0
    /\ outcome = NoOutcome
    /\ emitted = <<>>
    /\ sstate = "idle"

(***************************************************************************)
(* Expression trees                                                        *)
(***************************************************************************)
\* Identifier names are character sequences, so that name[0] and
\* name.slice(1) are computed on the characters.
X      == <<"x">>
HashX  == <<"#", "x">>
AtX    == <<"@", "x">>
StoreX == <<"$", "x">>
Math   == <<"M", "a", "t", "h">>

Names == {X, HashX, AtX, StoreX, Math}

\* Names used for declared parameters.
ParamNames == {X, HashX}

jsGlobals == {Math, <<"S", "t", "r", "i", "n", "g">>,
              <<"B", "o", "o", "l", "e", "a", "n">>,
              <<"O", "b", "j", "e", "c", "t">>}

NoName == <<>>

Node(type, name, parent, field, computed) ==
    [type |-> type, name |-> name, context |-> "unset",
     parent |-> parent, field |-> field, computed |-> computed]

Ident(name, parent, field) == Node("Identifier", name, parent, field, FALSE)

\* The core expressions: a, a.b, a[b], a + b, a && b, a = b, a(b)
CoreForms == {"id", "member", "computed", "binary", "logical", "assign", "call"}

\* The second identifier of a core expression is x or $x.
Cores == {c \in [form : CoreForms, a : Names, b : {X, StoreX}] :
            c.form = "id" => c.b = X}

\* The nodes of core expression c, the first of which gets index `at`.
CoreNodes(c, parent, field, at) ==
    CASE c.form = "id" ->
           <<Ident(c.a, parent, field)>>
      [] c.form = "member" ->
           <<Node("MemberExpression", NoName, parent, field, FALSE),
             Ident(c.a, at, "object"), Ident(c.b, at, "property")>>
      [] c.form = "computed" ->
           <<Node("MemberExpression", NoName, parent, field, TRUE),
             Ident(c.a, at, "object"), Ident(c.b, at, "property")>>
      [] c.form = "binary" ->
           <<Node("BinaryExpression", NoName, parent, field, FALSE),
             Ident(c.a, at, "left"), Ident(c.b, at, "right")>>
      [] c.form = "logical" ->
           <<Node("LogicalExpression", NoName, parent, field, FALSE),
             Ident(c.a, at, "left"), Ident(c.b, at, "right")>>
      [] c.form = "assign" ->
           <<Node("AssignmentExpression", NoName, parent, field, FALSE),
             Ident(c.a, at, "left"), Ident(c.b, at, "right")>>
      [] c.form = "call" ->
           <<Node("CallExpression", NoName, parent, field, FALSE),
             Ident(c.a, at, "callee"), Ident(c.b, at, "arguments")>>

\* An arrow function's parameter list: p => .., ([p]) => .., ({p}) => ..
ParamKinds == {"id", "array", "object"}

\* Patterns bind x; plain parameters are x or #x.
Wrappers == {w \in [kind : ParamKinds, p : ParamNames] : w.kind = "id" \/ w.p = X}

\* The arrow function node and its parameter nodes; the arrow gets index `at`.
ArrowNodes(w, parent, field, at) ==
    CASE w.kind = "id" ->
           <<Node("ArrowFunctionExpression", NoName, parent, field, FALSE),
             Ident(w.p, at, "params")>>
      [] w.kind = "array" ->
           <<Node("ArrowFunctionExpression", NoName, parent, field, FALSE),
             Node("ArrayPattern", NoName, at, "params", FALSE),
             Ident(w.p, at + 1, "elements")>>
      [] w.kind = "object" ->
           <<Node("ArrowFunctionExpression", NoName, parent, field, FALSE),
             Node("ObjectPattern", NoName, at, "params", FALSE),
             Node("Property", NoName, at + 1, "properties", FALSE),
             Ident(w.p, at + 2, "value")>>

RECURSIVE Nested(_, _, _, _, _)
\* ws[1] => ws[2] => ... => core, as the body of `parent`
Nested(ws, c, parent, field, at) ==
    IF ws = <<>> THEN CoreNodes(c, parent, field, at)
    ELSE LET arrow == ArrowNodes(ws[1], parent, field, at)
         IN  arrow \o Nested(Tail(ws), c, at, "body", at + Len(arrow))

\* What JSParser.parse returns: Program > ExpressionStatement > expression
Tree(ws, c) ==
    <<Node("Program", NoName, 0, "", FALSE),
      Node("ExpressionStatement", NoName, 1, "body", FALSE)>>
    \o Nested(ws, c, 2, "expression", 3)

RECURSIVE SeqsUpTo(_, _)
SeqsUpTo(S, n) ==
    IF n = 0 THEN {<<>>}
    ELSE SeqsUpTo(S, n - 1)
         \cup {<<s>> \o t : s \in S, t \in {q \in SeqsUpTo(S, n - 1) : Len(q) = n - 1}}

\* The arrow functions around the core expression, outermost first.
Nestings == SeqsUpTo(Wrappers, MaxNest)

HelperSets == {{}, {X}, {X, Math}}

(***************************************************************************)
(* The walker: the enclosing nodes of node i, outermost first               *)
(***************************************************************************)
RECURSIVE Ancestors(_, _)
Ancestors(tree, i) ==
    IF tree[i].parent = 0 THEN <<>>
    ELSE Append(Ancestors(tree, tree[i].parent), tree[i].parent)

(***************************************************************************)
(* parseJS: the classification of one node                                 *)
(***************************************************************************)
isFunction(type) == type \in {"FunctionDeclaration", "ArrowFunctionExpression"}

\* expr.params.includes(id)
isFunctionArgument(tree, i, last) ==
    isFunction(tree[last].type) /\ tree[i].parent = last /\ tree[i].field = "params"

\* isProperty with the test of the parent's type negated away: never a property
isPropertyNever(tree, i, last) == FALSE

\* expr.type === 'MemberExpression' && expr.property === id
isProperty(tree, i, last) ==
    tree[last].type = "MemberExpression" /\ tree[i].parent = last
    /\ tree[i].field = "property"

\* the node types that have a `left` field
hasLeft(type) ==
    type \in {"AssignmentExpression", "BinaryExpression", "LogicalExpression",
              "AssignmentPattern"}

\* 'left' in expr && expr.left === id
isAssignment(tree, i, last) ==
    hasLeft(tree[last].type) /\ tree[i].parent = last /\ tree[i].field = "left"

\* ancestor.params.some(param => param.type === 'Identifier' && param.name === id.name)
hasArg(tree, i, ancestor) ==
    \E j \in 1..Len(tree) :
        /\ tree[j].parent = ancestor /\ tree[j].field = "params"
        /\ tree[j].type = "Identifier" /\ tree[j].name = tree[i].name

\* isReserved looking for a parameter in the nearest enclosing node only
isReservedParentOnly(tree, i) ==
    LET ancestors == Ancestors(tree, i)
    IN  IF ancestors = <<>> THEN FALSE
        ELSE LET last == ancestors[Len(ancestors)]
             IN  \/ isFunctionArgument(tree, i, last)
                 \/ isProperty(tree, i, last)
                 \/ isAssignment(tree, i, last)
                 \/ isFunction(tree[last].type) /\ hasArg(tree, i, last)

isReserved(tree, i) ==
    LET ancestors == Ancestors(tree, i)
    IN  IF ancestors = <<>> THEN FALSE
        ELSE LET last == ancestors[Len(ancestors)]
             IN  \/ isFunctionArgument(tree, i, last)
                 \/ isProperty(tree, i, last)
                 \/ isAssignment(tree, i, last)
                 \/ \E k \in 1..Len(ancestors) :
                        /\ isFunction(tree[ancestors[k]].type)
                        /\ hasArg(tree, i, ancestors[k])

\* classify with the cases for '@' and '$' exchanged
classifySwapped(node, helperNames) ==
    CASE node.name[1] = "#" -> [node EXCEPT !.context = "state", !.name = Tail(node.name)]
      [] node.name[1] = "@" -> [node EXCEPT !.context = "store", !.name = Tail(node.name)]
      [] node.name[1] = "$" -> [node EXCEPT !.context = "variable", !.name = Tail(node.name)]
      [] OTHER -> [node EXCEPT !.context =
                      IF node.name \in helperNames THEN "helper" ELSE "property"]

\* the switch on node.name[0]
classify(node, helperNames) ==
    CASE node.name[1] = "#" -> [node EXCEPT !.context = "state", !.name = Tail(node.name)]
      [] node.name[1] = "@" -> [node EXCEPT !.context = "variable", !.name = Tail(node.name)]
      [] node.name[1] = "$" -> [node EXCEPT !.context = "store", !.name = Tail(node.name)]
      [] OTHER -> [node EXCEPT !.context =
                      IF node.name \in helperNames THEN "helper" ELSE "property"]

\* the callback asking options.helpers before anything else
visitHelpersFirst(tree, i, helperNames) ==
    IF tree[i].type = "Identifier"
    THEN IF tree[i].name \in helperNames
         THEN [tree EXCEPT ![i].context = "helper"]
         ELSE IF tree[i].name \in jsGlobals \/ isReserved(tree, i)
         THEN tree
         ELSE [tree EXCEPT ![i] = classify(tree[i], helperNames)]
    ELSE tree

\* the callback the walker runs on node i
visit(tree, i, helperNames) ==
    IF tree[i].type = "Identifier"
    THEN IF tree[i].name \in jsGlobals \/ isReserved(tree, i)
         THEN tree
         ELSE [tree EXCEPT ![i] = classify(tree[i], helperNames)]
    ELSE tree

(***************************************************************************)
(* Actions                                                                 *)
(***************************************************************************)
InitClassify ==
    /\ AttrIdle
    /\ ParseIdle
    /\ EmbedIdle
    /\ RawIdle
    /\ OpenIdle
    /\ ScanIdle
    /\ \E ws \in Nestings, c \in Cores : ast = Tree(ws, c)
    /\ source = ast
    /\ helpers \in HelperSets
    /\ cursor = 1
    /\ pass = 1
    /\ first = <<>>

\* The walker visits the next node in pre-order.
Walk ==
    /\ cursor <= Len(ast)
    /\ ast' = visit(ast, cursor, helpers)
    /\ cursor' = cursor + 1
    /\ first' = IF pass = 1 /\ cursor = Len(ast) THEN ast' ELSE first
    /\ UNCHANGED <<source, helpers, pass>>
    /\ UNCHANGED <<attrVars, parseVars, embedVars, rawVars, openVars, scanVars>>

\* The same pass is started again on the tree it has classified.
Reclassify ==
    /\ pass = 1
    /\ cursor > Len(ast)
    /\ pass' = 2
    /\ cursor' = 1
    /\ UNCHANGED <<ast, source, helpers, first>>
    /\ UNCHANGED <<attrVars, parseVars, embedVars, rawVars, openVars, scanVars>>

NextClassify == Walk \/ Reclassify

SpecClassify == InitClassify /\ [][NextClassify]_vars

(***************************************************************************)
(* Attribute values: the scanner primitives                                *)
(***************************************************************************)
EXPRESSION_START == "{"
EXPRESSION_END   == "}"
ESCAPE           == "\\"
SINGLE_QUOTE     == "'"
DOUBLE_QUOTE     == "\""

isQuote(ch) == ch = SINGLE_QUOTE \/ ch = DOUBLE_QUOTE

\* scanner.substring(from, to), positions 0-based
Substring(s, from, to) == SubSeq(s, from + 1, to)

\* scanner.peek() at position p
Peek(s, p) == s[p + 1]

\* a loop that leaves the scanner where it is
posUnchanged(p) == p

\* scanner.pos++
posIncrement(p) == p + 1

NoMatch == -1

RECURSIVE QuotedScan(_, _, _, _)
\* The loop of eatQuoted after the opening quote: the position after the
\* closing quote, or NoMatch when the scanner reaches the end ('Missing
\* closing quote for string').
QuotedScan(s, p, quote, limit) ==
    IF p >= limit THEN NoMatch
    ELSE IF Peek(s, p) = quote THEN p + 1
    ELSE IF Peek(s, p) = ESCAPE
         THEN QuotedScan(s, IF p + 2 > limit THEN limit ELSE p + 2, quote, limit)
    ELSE QuotedScan(s, p + 1, quote, limit)

RECURSIVE PairScan(_, _, _, _)
\* The loop of eatPair after the opening brace, with `stack` braces open:
\* the position after the matching brace, or NoMatch when the loop throws
\* ('Unable to find matching pair', or a missing closing quote).
PairScan(s, p, stack, limit) ==
    IF p >= limit THEN NoMatch
    ELSE IF isQuote(Peek(s, p))
         THEN LET q == QuotedScan(s, p + 1, Peek(s, p), limit)
              IN  IF q = NoMatch THEN NoMatch ELSE PairScan(s, q, stack, limit)
    ELSE IF Peek(s, p) = EXPRESSION_START THEN PairScan(s, p + 1, stack + 1, limit)
    ELSE IF Peek(s, p) = EXPRESSION_END
         THEN IF stack = 1 THEN p + 1 ELSE PairScan(s, p + 1, stack - 1, limit)
    ELSE IF Peek(s, p) = ESCAPE
         THEN PairScan(s, IF p + 2 > limit THEN limit ELSE p + 2, stack, limit)
    ELSE PairScan(s, p + 1, stack, limit)

(***************************************************************************)
(* The JS parser on the characters of the model                            *)
(***************************************************************************)
RECURSIVE JSTokens(_, _)
\* The tokens of `code` from index i on: "value" (a name or a string),
\* "{" and "}".
JSTokens(code, i) ==
    IF i > Len(code) THEN <<>>
    ELSE IF code[i] = " " THEN JSTokens(code, i + 1)
    ELSE IF code[i] \in {EXPRESSION_START, EXPRESSION_END}
         THEN <<code[i]>> \o JSTokens(code, i + 1)
    ELSE IF isQuote(code[i])
         THEN LET q == QuotedScan(code, i, code[i], Len(code))
              IN  IF q = NoMatch THEN <<"unterminated">>
                  ELSE <<"value">> \o JSTokens(code, q + 1)
    ELSE LET run == CHOOSE n \in i..Len(code) :
                        /\ \A k \in i..n : code[k] = code[i]
                        /\ (n = Len(code) \/ code[n + 1] # code[i])
         IN  <<"value">> \o JSTokens(code, run + 1)

\* JSParser.parse(code) returns a Program: the code is a list of blocks and
\* expression statements, and an expression statement (a name or a string)
\* ends at a closing brace or at the end of the code.
JSAccepts(code) ==
    LET toks == JSTokens(code, 1)
    IN  \A k \in 1..Len(toks) :
            /\ toks[k] # "unterminated"
            /\ toks[k] = "value" => (k = Len(toks) \/ toks[k + 1] = EXPRESSION_END)

(***************************************************************************)
(* expression(scanner)                                                     *)
(***************************************************************************)
\* expression(scanner) at position p of a scanner that ends at `limit`:
\* nothing, a thrown error, or the Program and the position after it.
expression(s, p, limit) ==
    IF p >= limit \/ Peek(s, p) # EXPRESSION_START THEN [kind |-> "none"]
    ELSE LET to == PairScan(s, p + 1, 1, limit)
         IN  IF to = NoMatch THEN [kind |-> "throw"]
             ELSE IF ~JSAccepts(Substring(s, p + 1, to - 1)) THEN [kind |-> "throw"]
             ELSE [kind |-> "Program", to |-> to,
                   node |-> [type |-> "Program", raw |-> Substring(s, p + 1, to - 1),
                             from |-> p, to |-> to]]

\* literal(text, text, scanner.loc(start))
literal(s, from, to) ==
    [type |-> "Literal", raw |-> Substring(s, from, to), from |-> from, to |-> to]

(***************************************************************************)
(* attributeValue and attributeValueExpression                             *)
(***************************************************************************)
\* The characters a quoted value may hold between its quotes.
InteriorChars == {"b", " ", EXPRESSION_START, EXPRESSION_END, SINGLE_QUOTE}

QuotedValues ==
    {<<DOUBLE_QUOTE>> \o t \o <<DOUBLE_QUOTE>> : t \in SeqsUpTo(InteriorChars, MaxInterior)}

\* The end of the scanner made by scanner.limit(scanner.start + 1, scanner.pos - 1)
Limit == Len(raw) - 1

\* elements.push(literal(..)) of the text before an expression, always
pushTextAlways(elems, s, from, to) == Append(elems, literal(s, from, to))

\* if (pos !== start) elements.push(literal(text, text, scanner.loc(start)))
pushText(elems, s, from, to) ==
    IF to # from THEN Append(elems, literal(s, from, to)) ELSE elems

\* the value attributeValue makes of the elements
interpolation(elems) ==
    IF Len(elems) = 1 THEN elems[1]
    ELSE [type |-> "ENDAttributeValueExpression", elements |-> elems]

(***************************************************************************)
(* Unquoted attribute values                                               *)
(***************************************************************************)
isWhiteSpace(ch) == ch \in {" ", "\t", "\n", "\r"}

\* TAG_END or TAG_CLOSE
isTerminator(ch) == ch = ">" \/ ch = "/"

\* isUnquoted(code); "=" is ATTR_DELIMITER
isUnquoted(ch) ==
    /\ ~isQuote(ch) /\ ~isWhiteSpace(ch) /\ ~isTerminator(ch)
    /\ ch # "=" /\ ch # EXPRESSION_START

RECURSIVE eatWhileUnquoted(_, _)
\* scanner.eatWhile(isUnquoted) from position p: the position it stops at
eatWhileUnquoted(s, p) ==
    IF p < Len(s) /\ isUnquoted(Peek(s, p)) THEN eatWhileUnquoted(s, p + 1) ELSE p

Digits == <<"0", "1", "2", "3", "4", "5", "6", "7", "8", "9">>

isDigit(ch) == \E d \in 1..10 : Digits[d] = ch

digitValue(ch) == (CHOOSE d \in 1..10 : Digits[d] = ch) - 1

\* /^\d+$/ on the characters of v
allDigits(v) == v # <<>> /\ \A k \in 1..Len(v) : isDigit(v[k])

RECURSIVE decimalValue(_)
\* Number(v) of a run of digits
decimalValue(v) ==
    IF v = <<>> THEN 0
    ELSE 10 * decimalValue(SubSeq(v, 1, Len(v) - 1)) + digitValue(v[Len(v)])

RECURSIVE power10(_)
power10(n) == IF n = 0 THEN 1 ELSE 10 * power10(n - 1)

\* Where /^\d*\.\d+$/ finds its dot in v, 0 when v does not match
dotOf(v) ==
    LET dots == {k \in 1..Len(v) :
                    /\ v[k] = "."
                    /\ \A j \in 1..(k - 1) : isDigit(v[j])
                    /\ allDigits(SubSeq(v, k + 1, Len(v)))}
    IN  IF dots = {} THEN 0 ELSE CHOOSE k \in dots : TRUE

RECURSIVE number(_, _)
\* The number num / den; equal numbers have equal records.
number(num, den) ==
    IF den > 1 /\ num % 10 = 0 THEN number(num \div 10, den \div 10)
    ELSE [kind |-> "number", num |-> num, den |-> den, text |-> <<>>]

Keyword(kind) == [kind |-> kind, num |-> 0, den |-> 1, text |-> <<>>]

String(v) == [kind |-> "string", num |-> 0, den |-> 1, text |-> v]

\* The values cast to a value of their own, by the name of that value.
Keywords ==
    [true      |-> <<"t", "r", "u", "e">>,
     false     |-> <<"f", "a", "l", "s", "e">>,
     null      |-> <<"n", "u", "l", "l">>,
     undefined |-> <<"u", "n", "d", "e", "f", "i", "n", "e", "d">>]

\* castAttributeValue without the test for a decimal fraction
castWithoutFraction(value) ==
    IF allDigits(value) THEN number(decimalValue(value), 1)
    ELSE IF \E k \in DOMAIN Keywords : Keywords[k] = value
    THEN Keyword(CHOOSE k \in DOMAIN Keywords : Keywords[k] = value)
    ELSE String(value)

\* castAttributeValue(value)
castAttributeValue(value) ==
    IF allDigits(value) THEN number(decimalValue(value), 1)
    ELSE IF dotOf(value) # 0
    THEN LET k == dotOf(value)
             whole == SubSeq(value, 1, k - 1)
             fraction == SubSeq(value, k + 1, Len(value))
         IN  number(decimalValue(whole \o fraction), power10(Len(fraction)))
    ELSE IF \E k \in DOMAIN Keywords : Keywords[k] = value
    THEN Keyword(CHOOSE k \in DOMAIN Keywords : Keywords[k] = value)
    ELSE String(value)

\* The unquoted values tried: short ones, the keywords and two near misses.
UnquotedValues ==
    (SeqsUpTo({"4", "0", ".", "t"}, MaxUnquoted) \ {<<>>})
    \cup {Keywords[k] : k \in DOMAIN Keywords}
    \cup {<<"T", "r", "u", "e">>, Keywords.null \o <<"l">>}

InitAttr ==
    /\ ClassifyIdle
    /\ ParseIdle
    /\ EmbedIdle
    /\ RawIdle
    /\ OpenIdle
    /\ ScanIdle
    /\ raw \in QuotedValues \cup UnquotedValues
    /\ apos = 0
    /\ astart = 0
    /\ elements = <<>>
    /\ avalue = [type |-> "none"]
    /\ astate = "value"

\* attributeValue up to the call of attributeValueExpression: no bare
\* expression starts at a quote; eatQuoted consumes the value; without an
\* expression start in it the value is a literal.
AttributeValue ==
    /\ astate = "value"
    /\ LET bare == expression(raw, 0, Len(raw))
           quoted == QuotedScan(raw, 1, Peek(raw, 0), Len(raw))
           interpolated == \E k \in 1..Len(raw) : raw[k] = EXPRESSION_START
       IN  /\ bare.kind = "none"
           /\ isQuote(Peek(raw, 0))
           /\ IF quoted = NoMatch
              THEN /\ astate' = "error"
                   /\ UNCHANGED <<apos, astart, avalue>>
              ELSE IF interpolated
              THEN /\ astate' = "interpolate"
                   /\ apos' = 1
                   /\ astart' = 1
                   /\ UNCHANGED avalue
              ELSE /\ astate' = "done"
                   /\ apos' = quoted
                   /\ avalue' = literal(raw, 1, quoted - 1)
                   /\ UNCHANGED astart
    /\ UNCHANGED <<raw, elements>>
    /\ UNCHANGED <<classifyVars, parseVars, embedVars, rawVars, openVars, scanVars>>

\* attributeValue of a value that is neither an expression nor quoted: the
\* run of unquoted characters, cast by its pattern.
UnquotedValue ==
    /\ astate = "value"
    /\ expression(raw, 0, Len(raw)).kind = "none"
    /\ ~isQuote(Peek(raw, 0))
    /\ eatWhileUnquoted(raw, 0) > 0
    /\ LET to == eatWhileUnquoted(raw, 0)
           value == Substring(raw, 0, to)
       IN  /\ apos' = to
           /\ avalue' = [type |-> "Literal", value |-> castAttributeValue(value),
                         raw |-> value, from |-> 0, to |-> to]
    /\ astate' = "done"
    /\ UNCHANGED <<raw, astart, elements>>
    /\ UNCHANGED <<classifyVars, parseVars, embedVars, rawVars, openVars, scanVars>>

\* One iteration of the loop of attributeValueExpression.
InterpolateStep ==
    /\ astate = "interpolate"
    /\ apos < Limit
    /\ LET expr == expression(raw, apos, Limit)
       IN  CASE expr.kind = "Program" ->
                  /\ elements' = Append(pushText(elements, raw, astart, apos), expr.node)
                  /\ astart' = expr.to
                  /\ apos' = expr.to
                  /\ UNCHANGED astate
             [] expr.kind = "none" ->
                  /\ apos' = posIncrement(apos)
                  /\ UNCHANGED <<elements, astart, astate>>
             [] expr.kind = "throw" ->
                  /\ astate' = "error"
                  /\ UNCHANGED <<elements, astart, apos>>
    /\ UNCHANGED <<raw, avalue>>
    /\ UNCHANGED <<classifyVars, parseVars, embedVars, rawVars, openVars, scanVars>>

\* The loop has reached the end of the limited scanner: the remaining text
\* is pushed and attributeValue returns the element or the interpolation.
InterpolateEnd ==
    /\ astate = "interpolate"
    /\ apos >= Limit
    /\ elements' = pushText(elements, raw, astart, apos)
    /\ avalue' = interpolation(elements')
    /\ apos' = Len(raw)
    /\ astate' = "done"
    /\ UNCHANGED <<raw, astart>>
    /\ UNCHANGED <<classifyVars, parseVars, embedVars, rawVars, openVars, scanVars>>

NextAttr == AttributeValue \/ UnquotedValue \/ InterpolateStep \/ InterpolateEnd

SpecAttr == InitAttr /\ [][NextAttr]_vars

(***************************************************************************)
(* Markup: lexemes                                                         *)
(*                                                                         *)
(* The statement parsers read the template through openTag, closeTag,      *)
(* innerHTML, expression, text and ignored.  The input is modelled as the  *)
(* sequence of lexemes those functions recognise, `la` being the one at    *)
(* scanner.pos.                                                            *)
(***************************************************************************)
\* Tag names, split at the namespace delimiter: <<"e", "choose">> is e:choose.
Div       == <<"div">>
Choose    == <<"e", "choose">>
When      == <<"e", "when">>
Otherwise == <<"e", "otherwise">>
If        == <<"e", "if">>
Attribute == <<"e", "attribute">>
Import    == <<"e", "import">>
Partial   == <<"partial", "p">>

\* A directive of an open tag; value is "null", "Program" or "Literal".
Directive(pfx, name, value) ==
    [type |-> "ENDDirective", prefix |-> pfx, name |-> name, value |-> value]

\* kind: open, close, text, expr, html, ignored, junk, badclose, eof.
\* attr is the value of the attribute the tag's parser asks for (test, href):
\* "absent", "null" (no value), "Literal" or "Program".  text is "text",
\* "space" (white space without line break) or "break" (white space with one).
Lexeme(kind, name, selfClosing, attr, directives, text) ==
    [kind |-> kind, name |-> name, selfClosing |-> selfClosing, attr |-> attr,
     directives |-> directives, text |-> text]

Open(name, attr)       == Lexeme("open", name, FALSE, attr, <<>>, "")
SelfClosed(name, attr) == Lexeme("open", name, TRUE, attr, <<>>, "")
Element(selfClosing, directives) ==
    Lexeme("open", Div, selfClosing, "absent", directives, "")
Close(name)            == Lexeme("close", name, FALSE, "absent", <<>>, "")
Text(text)             == Lexeme("text", <<>>, FALSE, "absent", <<>>, text)
Plain(kind)            == Lexeme(kind, <<>>, FALSE, "absent", <<>>, "")
Eof                    == Plain("eof")

\* tagName(tag)
tagName(tag) == tag.name

\* getControlName(name): the name after the e: prefix, 'partial' for a
\* partial:NAME tag, null otherwise
getControlName(name) ==
    IF Len(name) = 2 /\ name[1] = "e" THEN name[2]
    ELSE IF Len(name) = 2 /\ name[1] = "partial" THEN "partial"
    ELSE "null"

(***************************************************************************)
(* Values                                                                  *)
(***************************************************************************)
\* What tagBody returns: undefined for a self-closing tag, else the body.
Undefined  == [defined |-> FALSE, items |-> <<>>]
Body(list) == [defined |-> TRUE, items |-> list]

\* A node as it is kept in the body of its parent: its type and, for text,
\* the kind of text.
Item(type, text) == [type |-> type, text |-> text]

(***************************************************************************)
(* The call stack                                                          *)
(***************************************************************************)
\* fn: "program", "tagBody", "emptyBody" or "choose"; owner: the statement
\* parser that called it; consumer: tagBody was given consumeTag; test: the
\* test of the branch whose body is parsed; seen: the open tags the loop of
\* chooseStatement has read (history, not program state).
Frame(fn, owner, open, consumer, test) ==
    [fn |-> fn, owner |-> owner, open |-> open, consumer |-> consumer,
     test |-> test, tagStack |-> <<tagName(open)>>, items |-> <<>>,
     cases |-> <<>>, finished |-> FALSE, seen |-> <<>>]

Top(stk) == stk[Len(stk)]
Pop(stk) == SubSeq(stk, 1, Len(stk) - 1)
SetTop(stk, f) == [stk EXCEPT ![Len(stk)] = f]

\* What one step of a parser leaves: the stack, the state of the parse, the
\* error thrown and the statement returned to the caller, if any.
Continue(stk, node) ==
    [state |-> "run", stack |-> stk, error |-> NoError, ret |-> node]
\* throw scanner.error(message): every call in progress is abandoned
Throw(stk, message, names) ==
    [state |-> "error", stack |-> <<>>,
     error |-> [message |-> message, names |-> names], ret |-> NoNode]
\* a TypeError of the runtime, not an error of the parser
Fault(stk) ==
    [state |-> "crash", stack |-> <<>>, error |-> NoError, ret |-> NoNode]

(***************************************************************************)
(* elementStatement: class directives                                      *)
(***************************************************************************)
ENDAddClassStatement(dir) ==
    [type |-> "ENDAddClassStatement", tokens |-> <<dir.name>>, test |-> "none"]

ENDIfClass(dir) ==
    [type |-> "ENDIfStatement", tokens |-> <<dir.name>>, test |-> dir.value]

RECURSIVE expandDirectives(_, _, _)
\* The loop of elementStatement from index i (1-based) down to the first
\* directive: the directives kept, the body, and how the loop ended.
expandDirectives(dirs, body, i) ==
    IF i = 0 THEN [state |-> "run", directives |-> dirs, body |-> body, at |-> 0]
    ELSE IF dirs[i].prefix # "class" THEN expandDirectives(dirs, body, i - 1)
    ELSE IF dirs[i].value # "null" /\ dirs[i].value # "Program"
         THEN [state |-> "error", directives |-> dirs, body |-> body, at |-> i]
    ELSE IF ~body.defined
         THEN [state |-> "crash", directives |-> dirs, body |-> body, at |-> i]
    ELSE expandDirectives(
            SubSeq(dirs, 1, i - 1) \o SubSeq(dirs, i + 1, Len(dirs)),
            Body(<<IF dirs[i].value # "null" THEN ENDIfClass(dirs[i])
                   ELSE ENDAddClassStatement(dirs[i])>> \o body.items),
            i - 1)

(***************************************************************************)
(* Returning a statement to the caller                                     *)
(***************************************************************************)
\* The caller takes the statement: tagBody pushes it on items unless it is
\* undefined, the program pushes it on its body.
deliver(stk, node) ==
    IF node.type = "none" THEN stk
    ELSE SetTop(stk, [Top(stk) EXCEPT !.items = Append(@, Item(node.type, ""))])

\* chooseStatement.cases.push({type: 'ENDChooseCase', test, consequent})
addCase(cases, case) == Append(cases, case)

\* The statement parser `owner`, called for `open` on stack stk, has the
\* body of its tag (or needs none) and returns.
complete(owner, open, test, body, stk) ==
    CASE owner = "element" ->
           LET x == expandDirectives(open.directives, body, Len(open.directives))
               node == [type |-> "ENDElement", name |-> open.name,
                        directives |-> x.directives, body |-> x.body, open |-> open]
           IN  IF x.state = "error"
               THEN Throw(stk, "Expecting expression as attribute value", {})
               ELSE IF x.state = "crash" THEN Fault(stk)
               ELSE Continue(deliver(stk, node), node)
      [] owner = "if" ->
           LET node == [type |-> "ENDIfStatement", test |-> "Program",
                        consequent |-> body]
           IN  Continue(deliver(stk, node), node)
      [] owner = "case" ->
           LET node == [type |-> "ENDChooseCase", test |-> test, consequent |-> body]
           IN  Continue(SetTop(stk, [Top(stk) EXCEPT !.cases = addCase(@, node)]), node)
      [] owner = "partial" ->
           LET node == [type |-> "ENDPartialStatement", name |-> open.name]
           IN  Continue(deliver(stk, node), node)
      [] owner = "attribute" ->
           LET node == [type |-> "ENDAttributeStatement",
                        directives |-> open.directives]
           IN  Continue(deliver(stk, node), node)
      [] owner = "import" ->
           LET node == [type |-> "ENDImport", href |-> open.attr]
           IN  Continue(deliver(stk, node), node)

\* return chooseStatement: the frame of chooseStatement is on top of stk
returnChoose(stk) ==
    LET f == Top(stk)
        node == [type |-> "ENDChooseStatement", cases |-> f.cases, seen |-> f.seen]
    IN  Continue(deliver(Pop(stk), node), node)

\* tagBody(scanner, open, consumeTag) called by `owner`
callTagBody(stk, open, owner, consumer, test) ==
    IF open.selfClosing THEN complete(owner, open, test, Undefined, stk)
    ELSE Continue(Append(stk, Frame("tagBody", owner, open, consumer, test)), NoNode)

\* emptyBody(scanner, open) called by `owner`
callEmptyBody(stk, open, owner) ==
    IF open.selfClosing THEN complete(owner, open, "none", Undefined, stk)
    ELSE Continue(Append(stk, Frame("emptyBody", owner, open, FALSE, "none")), NoNode)

\* expectAttributeExpression(scanner, tag, 'test'): "ok", or how it fails
expectAttributeExpression(tag) ==
    CASE tag.attr = "absent"  -> "error"
      [] tag.attr = "null"    -> "crash"
      [] tag.attr = "Program" -> "ok"
      [] OTHER                -> "error"

\* expectAttributeLiteral(scanner, tag, 'href')
expectAttributeLiteral(tag) ==
    CASE tag.attr = "absent"  -> "error"
      [] tag.attr = "Literal" -> "ok"
      [] OTHER                -> "error"

\* The dispatcher handed to tagBody as consumeTag: the parser of the control
\* statement the tag names, elementStatement for every other tag.
statement(stk, tag) ==
    LET control == getControlName(tagName(tag))
    IN  CASE control = "if" ->
               LET test == expectAttributeExpression(tag)
               IN  IF test = "error"
                   THEN Throw(stk, "Expecting test attribute", {tagName(tag)})
                   ELSE IF test = "crash" THEN Fault(stk)
                   ELSE callTagBody(stk, tag, "if", TRUE, "Program")
          [] control = "choose" ->
               IF tag.selfClosing THEN Continue(stk, NoNode)
               ELSE Continue(Append(stk, Frame("choose", "choose", tag, TRUE, "none")),
                             NoNode)
          [] control = "attribute" -> callEmptyBody(stk, tag, "attribute")
          [] control = "import" ->
               IF expectAttributeLiteral(tag) = "error"
               THEN Throw(stk, "Expecting href attribute", {tagName(tag)})
               ELSE callEmptyBody(stk, tag, "import")
          [] control = "partial" -> callTagBody(stk, tag, "partial", FALSE, "none")
          [] OTHER -> callTagBody(stk, tag, "element", TRUE, "none")

(***************************************************************************)
(* The loops of the statement parsers, one iteration at a time             *)
(***************************************************************************)
\* closesTag(scanner, open) at lexeme t: "true", "false" or "throw"
closesTag(t, open) ==
    IF t.kind = "badclose" THEN "throw"
    ELSE IF t.kind # "close" THEN "false"
    ELSE IF tagName(t) = open THEN "true" ELSE "throw"

\* ignored(scanner, space) at lexeme t
ignored(t, space) ==
    \/ t.kind = "ignored"
    \/ space /\ t.kind = "text" /\ t.text \in {"space", "break"}

isLiteralItem(node) == node.type = "Literal"

RECURSIVE removeFormatting(_, _)
\* removeFormatting(statements) from index i on: the statements kept, and
\* whether isContentNode was applied to a missing neighbour
removeFormatting(statements, i) ==
    IF i > Len(statements) THEN [fault |-> FALSE, items |-> <<>>]
    ELSE
      LET node == statements[i]
          rest == removeFormatting(statements, i + 1)
          isContentNode(j) == isLiteralItem(statements[j]) \/ statements[j].type = "Program"
          formatting == isLiteralItem(node) /\ node.text = "break"
          missing == \/ i = 1
                     \/ ~isContentNode(i - 1) /\ i = Len(statements)
          keep == isContentNode(i - 1) \/ isContentNode(i + 1)
      IN  IF ~formatting
          THEN [fault |-> rest.fault, items |-> <<node>> \o rest.items]
          ELSE IF missing THEN [fault |-> TRUE, items |-> <<>>]
          ELSE [fault |-> rest.fault,
                items |-> (IF keep THEN <<node>> ELSE <<>>) \o rest.items]

\* innerHTML(scanner) returns a node at lexeme t: a block {{ .. }}
isInnerHTML(t) == t.kind = "html"

\* expression(scanner) returns a node at lexeme t: eatPair takes a balanced
\* { .. }, and the block {{ .. }} is balanced too
isExpression(t) == t.kind \in {"expr", "html"}

\* expression(scanner) || innerHTML(scanner): the type of the token, if any
expressionOrInnerHTML(t) ==
    IF isExpression(t) THEN "Program"
    ELSE IF isInnerHTML(t) THEN "ENDInnerHTML" ELSE "none"

\* innerHTML(scanner) || expression(scanner): the type of the token, if any
innerHTMLOrExpression(t) ==
    IF isInnerHTML(t) THEN "ENDInnerHTML"
    ELSE IF isExpression(t) THEN "Program" ELSE "none"

\* items.push(token) for every text token
pushEveryText(items, t) == Append(items, Item("Literal", t.text))

\* items.push(token) unless the token is white space with a line break
pushTextToken(items, t) ==
    IF t.text # "break" THEN Append(items, Item("Literal", t.text)) ELSE items

\* tagBody without tagStack.push(tagEntry)
pushNothing(tagStack, tagEntry) == tagStack

\* tagStack.push(tagEntry)
pushTag(tagStack, tagEntry) == Append(tagStack, tagName(tagEntry))

\* One iteration of the loop of tagBody, and what follows the loop.
tagBody(stk, t) ==
    LET f == Top(stk)
        closes == closesTag(t, f.tagStack[Len(f.tagStack)])
    IN  IF t.kind = "eof"
        THEN Throw(stk, "Expecting closing tag", {f.tagStack[Len(f.tagStack)]})
        ELSE IF closes = "throw"
        THEN Throw(stk, "Unexpected closing tag",
                   IF t.kind = "close"
                   THEN {tagName(t), f.tagStack[Len(f.tagStack)]} ELSE {})
        ELSE IF closes = "true"
        THEN IF Len(f.tagStack) > 1
             THEN Continue(SetTop(stk, [f EXCEPT !.tagStack = SubSeq(@, 1, Len(@) - 1)]),
                           NoNode)
             ELSE LET body == removeFormatting(f.items, 1)
                  IN  IF body.fault THEN Fault(stk)
                      ELSE complete(f.owner, f.open, f.test, Body(body.items), Pop(stk))
        ELSE IF t.kind = "open"
        THEN IF f.consumer THEN statement(stk, t)
             ELSE Continue(SetTop(stk, [f EXCEPT !.tagStack = pushTag(@, t)]), NoNode)
        ELSE IF innerHTMLOrExpression(t) # "none"
        THEN Continue(SetTop(stk, [f EXCEPT !.items =
                                      Append(@, Item(innerHTMLOrExpression(t), ""))]),
                      NoNode)
        ELSE IF t.kind = "text"
        THEN Continue(SetTop(stk, [f EXCEPT !.items = pushTextToken(@, t)]), NoNode)
        ELSE IF ignored(t, FALSE) THEN Continue(stk, NoNode)
        ELSE Throw(stk, "Unexpected token", {})

\* One iteration of the loop of emptyBody, and the return of its caller.
emptyBody(stk, t) ==
    LET f == Top(stk)
        closes == IF t.kind = "eof" THEN "eof" ELSE closesTag(t, tagName(f.open))
    IN  IF closes \in {"eof", "true"}
        THEN complete(f.owner, f.open, f.test, Undefined, Pop(stk))
        ELSE IF closes = "throw"
        THEN Throw(stk, "Unexpected closing tag",
                   IF t.kind = "close" THEN {tagName(t), tagName(f.open)} ELSE {})
        ELSE IF ignored(t, FALSE) THEN Continue(stk, NoNode)
        ELSE Throw(stk, "Unexpected token, tag must be empty", {tagName(f.open)})

\* chooseStatement without `finished = true`
neverFinished(finished, name) == finished

\* finished after the branch `name`
finishedAfter(finished, name) == finished \/ name = "otherwise"

\* chooseStatement taking every control name for a branch
anyBranch(name) == name # "null"

\* name === 'when' || name === 'otherwise'
isBranch(name) == name \in {"when", "otherwise"}

\* One iteration of the loop of chooseStatement, and its return.
chooseStatement(stk, t) ==
    LET f == Top(stk)
        closes == IF t.kind = "eof" THEN "eof" ELSE closesTag(t, tagName(f.open))
        name == getControlName(tagName(t))
        test == IF name = "when" THEN expectAttributeExpression(t) ELSE "ok"
        entered == [f EXCEPT !.finished = finishedAfter(@, name),
                             !.seen = Append(@, name)]
    IN  IF closes \in {"eof", "true"} THEN returnChoose(stk)
        ELSE IF closes = "throw"
        THEN Throw(stk, "Unexpected closing tag",
                   IF t.kind = "close" THEN {tagName(t), tagName(f.open)} ELSE {})
        ELSE IF t.kind = "open"
        THEN IF ~isBranch(name)
             THEN Throw(stk, "Unexpected tag, expecting when or otherwise", {tagName(t)})
             ELSE IF f.finished
             THEN Throw(stk, "Unexpected tag after otherwise", {tagName(t)})
             ELSE IF test = "error"
             THEN Throw(stk, "Expecting test attribute", {tagName(t)})
             ELSE IF test = "crash" THEN Fault(stk)
             ELSE callTagBody(SetTop(stk, entered), t, "case", TRUE,
                              IF name = "when" THEN t.attr ELSE "undefined")
        ELSE IF ignored(t, TRUE) THEN Continue(stk, NoNode)
        ELSE Throw(stk, "Unexpected token", {})

\* One iteration of the loop over the top level of the template.
program(stk, t) ==
    IF t.kind = "eof" THEN [Continue(stk, NoNode) EXCEPT !.state = "ok"]
    ELSE IF t.kind = "open" THEN statement(stk, t)
    ELSE IF ignored(t, TRUE) THEN Continue(stk, NoNode)
    ELSE Throw(stk, "Unexpected token", {})

(***************************************************************************)
(* Templates                                                               *)
(***************************************************************************)
\* The lexemes of a template are drawn from one of these alphabets.
ClassDirectives ==
    { <<Directive("on", "click", "Program"), Directive("class", "a", "null"),
        Directive("class", "b", "Program")>>,
      <<Directive("class", "c", "Literal")>> }

Alphabet(m) ==
    CASE m = "nesting" ->
           { Open(Div, "absent"), Open(Choose, "absent"), Open(Attribute, "absent"),
             Open(Import, "Literal"),
             Close(Div), Close(Choose), Close(Attribute), Close(Import) }
      [] m = "choose" ->
           { Open(Choose, "absent"), Open(When, "Program"),
             Open(Otherwise, "absent"),
             Close(Choose), Close(When), Close(Otherwise),
             Text("text"), Text("space") }
      [] m = "branches" ->
           { Open(Choose, "absent"), Open(When, "absent"), Open(When, "null"),
             Open(When, "Literal"),
             Close(Choose), Close(When), Plain("ignored") }
      [] m = "element" ->
           { Element(sc, d) : sc \in BOOLEAN, d \in ClassDirectives }
           \cup { Close(Div), Text("text"), Text("break") }
      [] m = "partial" ->
           { Open(Partial, "absent"), Open(Div, "absent"), SelfClosed(Div, "absent"),
             Close(Div), Close(Partial), Plain("expr") }
      [] m = "if" ->
           { Open(If, "Program"), Open(If, "absent"), Open(If, "null"),
             Open(If, "Literal"), Open(If, "ENDAttributeValueExpression"),
             Close(If), Text("text") }
      [] m = "body" ->
           { Open(Div, "absent"), Close(Div), Plain("html"), Plain("expr"),
             Text("text"), Plain("ignored"), Plain("junk"),
             SelfClosed(Choose, "absent") }

Alphabets == {"nesting", "choose", "branches", "element", "partial", "if", "body"}

\* The open tags of the lexemes read that no close tag has matched yet
\* (history of the input, not state of the parser).
Unclosed(open, t) ==
    IF t.kind = "open" /\ ~t.selfClosing THEN Append(open, tagName(t))
    ELSE IF t.kind = "close" /\ open # <<>> /\ open[Len(open)] = tagName(t)
         THEN SubSeq(open, 1, Len(open) - 1)
    ELSE open

Root == Frame("program", "program", Open(<<"#document">>, "absent"), TRUE, "none")

InitParse ==
    /\ alphabet \in Alphabets
    /\ la = NoLexeme
    /\ consumed = 0
    /\ callStack = <<Root>>
    /\ pstate = "run"
    /\ perror = NoError
    /\ ret = NoNode
    /\ unclosed = <<>>
    /\ ClassifyIdle
    /\ AttrIdle
    /\ EmbedIdle
    /\ RawIdle
    /\ OpenIdle
    /\ ScanIdle

\* The lexemes that may stand at scanner.pos: nothing follows the end
Following ==
    IF consumed >= MaxLexemes \/ la.kind = "eof" THEN {Eof}
    ELSE Alphabet(alphabet) \cup {Eof}

\* The parser on top of the stack met lexeme t, ran one iteration and left r.
Advance(t, r) ==
    /\ la' = t
    /\ callStack' = r.stack
    /\ pstate' = r.state
    /\ perror' = r.error
    /\ ret' = IF r.ret.type = "none" THEN ret ELSE r.ret
    /\ IF r.state = "run" /\ t.kind # "eof"
       THEN /\ consumed' = consumed + 1
            /\ unclosed' = Unclosed(unclosed, t)
       ELSE UNCHANGED <<consumed, unclosed>>
    /\ UNCHANGED <<alphabet, classifyVars, attrVars, embedVars, rawVars, openVars, scanVars>>

ProgramStep ==
    /\ pstate = "run" /\ Top(callStack).fn = "program"
    /\ \E t \in Following : Advance(t, program(callStack, t))

TagBodyStep ==
    /\ pstate = "run" /\ Top(callStack).fn = "tagBody"
    /\ \E t \in Following : Advance(t, tagBody(callStack, t))

EmptyBodyStep ==
    /\ pstate = "run" /\ Top(callStack).fn = "emptyBody"
    /\ \E t \in Following : Advance(t, emptyBody(callStack, t))

ChooseStep ==
    /\ pstate = "run" /\ Top(callStack).fn = "choose"
    /\ \E t \in Following : Advance(t, chooseStatement(callStack, t))

NextParse == ProgramStep \/ TagBodyStep \/ EmptyBodyStep \/ ChooseStep

SpecParse == InitParse /\ [][NextParse]_vars

(***************************************************************************)
(* Embedded expressions: expression(scanner) and the locations of parseJS  *)
(***************************************************************************)
\* The line (from 1) and the column (from 0) of the offset `at` of s.
lineColumn(s, at) ==
    LET breaks == {k \in 1..at : s[k] = "\n"}
        last == IF breaks = {} THEN 0 ELSE CHOOSE k \in breaks : \A j \in breaks : j <= k
    IN  [line |-> 1 + Cardinality(breaks), column |-> at - last]

\* scanner.sourceLocation(pos)
sourceLocation(s, at) ==
    [line |-> lineColumn(s, at).line, column |-> lineColumn(s, at).column, offset |-> at]

\* offsetPos(pos, offset) with every position it is given moved
offsetPosEveryLine(pos, offset) ==
    LET moved == [line   |-> pos.line + offset.line - 1,
                  column |-> pos.column + offset.column]
    IN  IF "offset" \in DOMAIN pos
        THEN [line |-> moved.line, column |-> moved.column,
              offset |-> pos.offset + offset.offset]
        ELSE moved

\* offsetPos(pos, offset): the position it leaves in pos
offsetPos(pos, offset) ==
    LET moved == [line   |-> pos.line + offset.line - 1,
                  column |-> IF pos.line = 1 THEN pos.column + offset.column
                             ELSE pos.column]
    IN  IF "offset" \in DOMAIN pos
        THEN [line |-> moved.line, column |-> moved.column,
              offset |-> pos.offset + offset.offset]
        ELSE moved

\* What JSParser.parse(code) may throw: an error whose loc is the line and
\* the column of some offset of the code.
JSErrors(code) == {lineColumn(code, at) : at \in 0..Len(code)}

\* The nodes JSParser.parse(code) may return, in the order the walker visits
\* them: the Program, which spans the code, and below it nodes that start
\* and end in the code.  `inner` keeps the offsets JSParser stamped.
JSTrees(code) ==
    LET Node_(type, start, end) ==
            [type |-> type, start |-> start, end |-> end, inner |-> <<start, end>>]
        ranges == {r \in (0..Len(code)) \X (0..Len(code)) : r[1] <= r[2]}
        below == {Node_("Identifier", r[1], r[2]) : r \in ranges}
    IN  {<<Node_("Program", 0, Len(code))>> \o t : t \in SeqsUpTo(below, 2)}

\* The callback of parseJS upgrading the locations of a node, start only
upgradeStart(node, offset) ==
    IF offset # NoPosition THEN [node EXCEPT !.start = @ + offset.offset] ELSE node

\* The callback of parseJS upgrading the locations of a node.  The line and
\* column records of a node are JSParser's and are left out of the nodes.
upgrade(node, offset) ==
    IF offset # NoPosition
    THEN [node EXCEPT !.start = @ + offset.offset, !.end = @ + offset.offset]
    ELSE node

\* The documents tried: an expression in braces after some characters and
\* line breaks, and the code of an expression given to parseJS as it is.
InitEmbed ==
    /\ ClassifyIdle
    /\ AttrIdle
    /\ ParseIdle
    /\ RawIdle
    /\ OpenIdle
    /\ ScanIdle
    /\ \E before \in SeqsUpTo({"b", "\n"}, MaxBefore),
          code \in SeqsUpTo({"b", "\n"}, MaxCode), embedded \in BOOLEAN :
          /\ document = IF embedded
                    THEN before \o <<EXPRESSION_START>> \o code \o <<EXPRESSION_END>>
                    ELSE code
          /\ epos = IF embedded THEN Len(before) ELSE 0
    /\ eoffset = NoPosition
    /\ enodes = <<>>
    /\ evisit = 1
    /\ estate = "start"
    /\ eloc = NoPosition
    /\ einner = NoPosition

\* The body of parseJS(code, options) up to the walk: JSParser throws, and
\* the error is thrown again at its place in the document, or it returns a
\* tree.
parseJS(code, offset) ==
    \/ \E loc \in JSErrors(code) :
          /\ einner' = loc
          /\ eloc' = IF offset # NoPosition THEN offsetPos(loc, offset) ELSE loc
          /\ estate' = "error"
          /\ UNCHANGED enodes
    \/ \E tree \in JSTrees(code) :
          /\ enodes' = tree
          /\ estate' = "walk"
          /\ UNCHANGED <<eloc, einner>>

\* expression(scanner) where the scanner meets a pair of braces
Expression ==
    /\ estate = "start"
    /\ epos < Len(document) /\ Peek(document, epos) = EXPRESSION_START
    /\ PairScan(document, epos + 1, 1, Len(document)) # NoMatch
    /\ LET begin == epos + 1
           end == PairScan(document, epos + 1, 1, Len(document)) - 1
       IN  /\ eoffset' = sourceLocation(document, begin)
           /\ parseJS(Substring(document, begin, end), eoffset')
    /\ UNCHANGED <<document, epos, evisit>>
    /\ UNCHANGED <<classifyVars, attrVars, parseVars, rawVars, openVars, scanVars>>

\* parseJS(code) called on a text of its own, without options.offset
ParseJSAlone ==
    /\ estate = "start"
    /\ ~(epos < Len(document) /\ Peek(document, epos) = EXPRESSION_START)
    /\ parseJS(document, NoPosition)
    /\ UNCHANGED <<document, epos, eoffset, evisit>>
    /\ UNCHANGED <<classifyVars, attrVars, parseVars, rawVars, openVars, scanVars>>

\* The walker calls the callback of parseJS on the next node.
UpgradeNode ==
    /\ estate = "walk"
    /\ evisit <= Len(enodes)
    /\ enodes' = [enodes EXCEPT ![evisit] = upgrade(@, eoffset)]
    /\ evisit' = evisit + 1
    /\ estate' = IF evisit = Len(enodes) THEN "done" ELSE "walk"
    /\ UNCHANGED <<document, epos, eoffset, eloc, einner>>
    /\ UNCHANGED <<classifyVars, attrVars, parseVars, rawVars, openVars, scanVars>>

NextEmbed == Expression \/ ParseJSAlone \/ UpgradeNode

SpecEmbed == InitEmbed /\ [][NextEmbed]_vars

(***************************************************************************)
(* Raw text blocks: closeTag and tagText                                   *)
(***************************************************************************)
\* nameStartChar(ch); the letters are those the texts of the model use
nameStartChar(ch) == ch \in {"a", "d", "s"} \/ ch = "_" \/ ch = ":"

\* nameChar(ch)
nameChar(ch) == nameStartChar(ch) \/ isDigit(ch) \/ ch = "-" \/ ch = "."

RECURSIVE eatWhileNameChar(_, _)
\* scanner.eatWhile(nameChar) from position p: the position it stops at
eatWhileNameChar(s, p) ==
    IF p < Len(s) /\ nameChar(Peek(s, p)) THEN eatWhileNameChar(s, p + 1) ELSE p

\* scanner.eat(ch) at position p: the position after it (p if it fails)
eat(s, p, ch) == IF p < Len(s) /\ Peek(s, p) = ch THEN p + 1 ELSE p

\* a function that returns nothing and leaves the scanner where it stopped
stayWhereStopped(pos, stopped) == stopped

\* scanner.pos = pos: the position a function that returns nothing leaves,
\* having moved the scanner from pos to `stopped`
restorePos(pos, stopped) == pos

\* closeTag(scanner) at position p: no close tag (the position is put
\* back), a close tag and the position after it, or an error thrown
closeTagLenient(s, p) ==
    IF eat(s, p, "<") = p \/ eat(s, p + 1, "/") = p + 1
    THEN [kind |-> "none", to |-> restorePos(p, eat(s, p, "<"))]
    ELSE IF ~(p + 2 < Len(s) /\ nameStartChar(Peek(s, p + 2)))
    THEN [kind |-> "none", to |-> restorePos(p, p + 2)]
    ELSE LET to == eatWhileNameChar(s, p + 3)
         IN  IF to < Len(s) /\ Peek(s, to) = ">"
             THEN [kind |-> "close", name |-> Substring(s, p + 2, to), to |-> to + 1]
             ELSE [kind |-> "throw", message |-> "Expected tag closing brace"]

closeTag(s, p) ==
    IF eat(s, p, "<") = p \/ eat(s, p + 1, "/") = p + 1
    THEN [kind |-> "none", to |-> restorePos(p, eat(s, p, "<"))]
    ELSE IF ~(p + 2 < Len(s) /\ nameStartChar(Peek(s, p + 2)))
    THEN [kind |-> "throw", message |-> "Unexpected character"]
    ELSE LET to == eatWhileNameChar(s, p + 3)
         IN  IF to < Len(s) /\ Peek(s, to) = ">"
             THEN [kind |-> "close", name |-> Substring(s, p + 2, to), to |-> to + 1]
             ELSE [kind |-> "throw", message |-> "Expected tag closing brace"]

\* tagName(open) of the block: <s> stands for <style> and <script>
RawOpen == <<"s">>

\* The pieces the text of a block is made of: its close tag, the close tag
\* and the open tag of another name, "</" and "<" before a space, a close
\* tag without its brace, and a letter.
RawPieces ==
    { <<"<", "/", "s", ">">>, <<"<", "/", "d", ">">>, <<"<", "d", ">">>,
      <<"<", "/", " ">>, <<"<", " ">>, <<"<", "/", "s", " ">>, <<"a">> }

RECURSIVE Join(_)
Join(pieces) == IF pieces = <<>> THEN <<>> ELSE Head(pieces) \o Join(Tail(pieces))

InitRaw ==
    /\ ClassifyIdle
    /\ AttrIdle
    /\ ParseIdle
    /\ EmbedIdle
    /\ OpenIdle
    /\ ScanIdle
    /\ \E pieces \in SeqsUpTo(RawPieces, MaxPieces) : rawText = Join(pieces)
    /\ rawPos = 0
    /\ rawState = "text"
    /\ rawValue = <<>>
    /\ rawError = ""

\* One iteration of the loop of tagText, and what follows the loop.
TagText ==
    /\ rawState = "text"
    /\ IF rawPos >= Len(rawText)
       THEN /\ rawState' = "error"
            /\ rawError' = "Expecting closing tag"
            /\ UNCHANGED <<rawPos, rawValue>>
       ELSE LET end == rawPos
                close == closeTag(rawText, rawPos)
            IN  CASE close.kind = "throw" ->
                       /\ rawState' = "error"
                       /\ rawError' = close.message
                       /\ UNCHANGED <<rawPos, rawValue>>
                  [] close.kind = "close" /\ close.name = RawOpen ->
                       /\ rawState' = "done"
                       /\ rawValue' = Substring(rawText, 0, end)
                       /\ rawPos' = close.to
                       /\ UNCHANGED rawError
                  [] close.kind = "close" /\ close.name # RawOpen ->
                       /\ rawPos' = close.to
                       /\ UNCHANGED <<rawState, rawValue, rawError>>
                  [] close.kind = "none" ->
                       /\ rawPos' = posIncrement(close.to)
                       /\ UNCHANGED <<rawState, rawValue, rawError>>
    /\ UNCHANGED rawText
    /\ UNCHANGED <<classifyVars, attrVars, parseVars, embedVars, openVars, scanVars>>

NextRaw == TagText

SpecRaw == InitRaw /\ [][NextRaw]_vars

(***************************************************************************)
(* Open tags: getDirective and the attributes of openTag                   *)
(***************************************************************************)
\* The prefixes of directives: e, on, ref, class, partial, animate
directives ==
    { <<"e">>, <<"o", "n">>, <<"r", "e", "f">>, <<"c", "l", "a", "s", "s">>,
      <<"p", "a", "r", "t", "i", "a", "l">>, <<"a", "n", "i", "m", "a", "t", "e">> }

\* name.match(/^([\w-]+):/): the length of m[1], 0 when there is no match.
\* Of the characters of a name, [\w-] leaves out the colon and the dot.
matchPrefix(name) ==
    LET colons == {k \in 2..Len(name) :
                      /\ name[k] = ":"
                      /\ \A j \in 1..(k - 1) : name[j] # ":" /\ name[j] # "."}
    IN  IF colons = {} THEN 0 ELSE (CHOOSE k \in colons : TRUE) - 1

\* getDirective(attr) taking every prefix for the prefix of a directive
getDirectiveOfAnyPrefix(attr) ==
    IF attr.name.type = "Identifier" /\ matchPrefix(attr.name.name) > 0
    THEN LET m == matchPrefix(attr.name.name)
         IN  [type |-> "ENDDirective", prefix |-> Substring(attr.name.name, 0, m),
              name |-> Substring(attr.name.name, m + 1, Len(attr.name.name)),
              value |-> attr.value]
    ELSE NoNode

\* getDirective(attr): the directive, or NoNode for undefined
getDirective(attr) ==
    IF /\ attr.name.type = "Identifier" /\ matchPrefix(attr.name.name) > 0
       /\ Substring(attr.name.name, 0, matchPrefix(attr.name.name)) \in directives
    THEN LET m == matchPrefix(attr.name.name)
         IN  [type |-> "ENDDirective", prefix |-> Substring(attr.name.name, 0, m),
              name |-> Substring(attr.name.name, m + 1, Len(attr.name.name)),
              value |-> attr.value]
    ELSE NoNode

RECURSIVE forEachAttribute(_, _, _, _)
\* attributes.forEach(...) of openTag from attribute i on: the tag it
\* leaves, or the error thrown for a slot name that is not a literal
forEachAttribute(name, attributes, i, tag) ==
    IF i > Len(attributes) THEN tag
    ELSE LET attr == attributes[i]
             directive == getDirective(attr)
             slotName == IF name = <<"s", "l", "o", "t">> THEN <<"n", "a", "m", "e">>
                         ELSE <<"s", "l", "o", "t">>
             shouldValidateSlot ==
                 attr.name.type = "Identifier" /\ attr.name.name = slotName
         IN  IF directive # NoNode
             THEN forEachAttribute(name, attributes, i + 1,
                      [tag EXCEPT !.directives = Append(@, directive)])
             ELSE IF shouldValidateSlot /\ attr.value \notin {"null", "Literal"}
             THEN [message |-> "Slot name must be a string literal"]
             ELSE forEachAttribute(name, attributes, i + 1,
                      [tag EXCEPT !.attributes = Append(@, attr)])

\* The attributes consumeAttributes may return: a static name, with or
\* without a prefix, or a dynamic name, and no value, a literal or an
\* expression.
Attributes ==
    LET names == { <<"o", "n", ":", "a">>, <<"e", ":", "a">>, <<"x", ":", "a">>,
                   <<":", "a">>, <<"o", "n">>, <<"a", ".", "b", ":", "c">>,
                   <<"s", "l", "o", "t">> }
        static == {[type |-> "Identifier", name |-> n] : n \in names}
        dynamic == {[type |-> "Program", name |-> <<>>]}
    IN  [type : {"ENDAttribute"}, name : static \cup dynamic,
         value : {"null", "Literal", "Program"}]

InitOpen ==
    /\ ClassifyIdle
    /\ AttrIdle
    /\ ParseIdle
    /\ EmbedIdle
    /\ RawIdle
    /\ ScanIdle
    /\ openName \in {<<"d", "i", "v">>, <<"s", "l", "o", "t">>}
    /\ consumedAttributes \in SeqsUpTo(Attributes, MaxAttributes)
    /\ parsedTag = NoTag
    /\ openState = "consumed"

\* openTag after consumeAttributes and the closing brace: createTag and the
\* loop over the attributes.
OpenTag ==
    /\ openState = "consumed"
    /\ LET tag == forEachAttribute(openName, consumedAttributes, 1, NoTag)
       IN  IF "message" \in DOMAIN tag
           THEN openState' = "error" /\ UNCHANGED parsedTag
           ELSE openState' = "done" /\ parsedTag' = tag
    /\ UNCHANGED <<openName, consumedAttributes>>
    /\ UNCHANGED <<classifyVars, attrVars, parseVars, embedVars, rawVars, scanVars>>

NextOpen == OpenTag

SpecOpen == InitOpen /\ [][NextOpen]_vars

(***************************************************************************)
(* The scanner at a position: openTag, closeTag and innerHTML              *)
(***************************************************************************)
\* How many characters a piece of markup may hold.
MaxMarkup == 4

\* How many pieces may follow the opening braces of a block.
MaxBlock == 4

RECURSIVE eatWhileSpace(_, _)
\* scanner.eatWhile(isSpace) from position p
eatWhileSpace(s, p) ==
    IF p < Len(s) /\ isWhiteSpace(Peek(s, p)) THEN eatWhileSpace(s, p + 1) ELSE p

\* ident(scanner) at position p: the position after the name, p without one
ident(s, p) ==
    IF p < Len(s) /\ nameStartChar(Peek(s, p)) THEN eatWhileNameChar(s, p + 1) ELSE p

RECURSIVE consumeAttributes(_, _)
\* consumeAttributes(scanner) at position p, for attributes without value
\* (the inputs hold no ATTR_DELIMITER): the position it stops at, or the
\* error thrown
consumeAttributes(s, p) ==
    IF p >= Len(s) THEN [kind |-> "attributes", to |-> p]
    ELSE LET q == eatWhileSpace(s, p)
             name == expression(s, q, Len(s))
         IN  IF ident(s, q) # q THEN consumeAttributes(s, ident(s, q))
             ELSE IF name.kind = "Program" THEN consumeAttributes(s, name.to)
             ELSE IF name.kind = "throw"
             THEN [kind |-> "throw", message |-> "Unable to find matching pair"]
             ELSE IF q < Len(s) /\ ~isTerminator(Peek(s, q))
             THEN [kind |-> "throw", message |-> "Unexpected attribute name"]
             ELSE [kind |-> "attributes", to |-> q]

\* openTag(scanner) at position p: no tag (the position is put back), a tag
\* and the position after it, or an error thrown
openTag(s, p) ==
    LET named == ident(s, eat(s, p, "<"))
    IN  IF eat(s, p, "<") = p \/ named = p + 1
        THEN [kind |-> "none", to |-> restorePos(p, eat(s, p, "<"))]
        ELSE LET attributes == consumeAttributes(s, named)
             IN  IF attributes.kind = "throw" THEN attributes
                 ELSE LET selfClosing == eat(s, attributes.to, "/")
                      IN  IF eat(s, selfClosing, ">") = selfClosing
                          THEN [kind |-> "throw", message |-> "Expected tag closing brace"]
                          ELSE [kind |-> "open", name |-> Substring(s, p + 1, named),
                                selfClosing |-> selfClosing # attributes.to,
                                to |-> selfClosing + 1]

\* The pieces that follow the opening braces of a block: a brace, a quoted
\* brace, an escaped brace, a letter and a quote.
BlockPieces ==
    { <<"{">>, <<"}">>, <<"'", "}", "'">>, <<"\\", "}">>, <<"a">>, <<"'">> }

MarkupChars == {"<", "/", ">", "a", " "}

\* The texts the scanner stands in: a block, the start of one, or markup.
ScanInputs ==
    { <<"{", "{">> \o Join(pieces) : pieces \in SeqsUpTo(BlockPieces, MaxBlock) }
    \cup { Join(pieces) : pieces \in SeqsUpTo(BlockPieces, 2) }
    \cup SeqsUpTo(MarkupChars, MaxMarkup)

InitScan ==
    /\ ClassifyIdle
    /\ AttrIdle
    /\ ParseIdle
    /\ EmbedIdle
    /\ RawIdle
    /\ OpenIdle
    /\ \E before \in {<<>>, <<"a">>} : \E rest \in ScanInputs :
          /\ input = before \o rest
          /\ entry = Len(before)
    /\ spos = entry
    /\ called = "none"
    /\ depth = 0
    /\ outcome = NoOutcome
    /\ emitted = <<>>
    /\ sstate = "ready"

\* The function returns or throws `r`, leaving the scanner at position `to`.
Leave(r, to) ==
    /\ outcome' = r
    /\ spos' = to
    /\ sstate' = IF r.kind = "throw" THEN "thrown" ELSE "returned"

\* openTag(scanner)
CallOpenTag ==
    /\ sstate = "ready"
    /\ called' = "openTag"
    /\ LET r == openTag(input, spos)
       IN  Leave(r, IF r.kind = "throw" THEN spos ELSE r.to)
    /\ UNCHANGED <<input, entry, depth, emitted>>
    /\ UNCHANGED <<classifyVars, attrVars, parseVars, embedVars, rawVars, openVars>>

\* closeTag(scanner)
CallCloseTag ==
    /\ sstate = "ready"
    /\ called' = "closeTag"
    /\ LET r == closeTag(input, spos)
       IN  Leave(r, IF r.kind = "throw" THEN spos ELSE r.to)
    /\ UNCHANGED <<input, entry, depth, emitted>>
    /\ UNCHANGED <<classifyVars, attrVars, parseVars, embedVars, rawVars, openVars>>

\* innerHTML(scanner) up to its loop: two EXPRESSION_START are eaten, or the
\* position is put back and nothing is returned
CallInnerHTML ==
    /\ sstate = "ready"
    /\ called' = "innerHTML"
    /\ LET one == eat(input, spos, EXPRESSION_START)
           two == eat(input, one, EXPRESSION_START)
       IN  IF one # spos /\ two # one
           THEN /\ spos' = two
                /\ sstate' = "inner"
                /\ depth' = 0
                /\ UNCHANGED outcome
           ELSE /\ Leave(NoOutcome, restorePos(spos, one))
                /\ UNCHANGED depth
    /\ UNCHANGED <<input, entry, emitted>>
    /\ UNCHANGED <<classifyVars, attrVars, parseVars, embedVars, rawVars, openVars>>

\* the text of the block with its delimiters
substringWithDelimiters(s, start, pos) == Substring(s, start, pos)

\* scanner.substring(start + 2, scanner.pos - 2)
substringOfBlock(s, start, pos) == Substring(s, start + 2, pos - 2)

\* One iteration of the loop of innerHTML, and the throw that follows it.
InnerHTMLStep ==
    /\ sstate = "inner"
    /\ IF spos >= Len(input)
       THEN /\ Leave([kind |-> "throw", message |-> "Unable to find matching pair"], spos)
            /\ UNCHANGED depth
       ELSE IF isQuote(Peek(input, spos))
       THEN LET q == QuotedScan(input, spos + 1, Peek(input, spos), Len(input))
            IN  /\ IF q = NoMatch
                   THEN Leave([kind |-> "throw", message |-> "Missing closing quote"], spos)
                   ELSE spos' = q /\ UNCHANGED <<outcome, sstate>>
                /\ UNCHANGED depth
       ELSE IF Peek(input, spos) = EXPRESSION_START
       THEN /\ spos' = spos + 1
            /\ depth' = depth + 1
            /\ UNCHANGED <<outcome, sstate>>
       ELSE IF Peek(input, spos) = EXPRESSION_END
       THEN IF depth # 0
            THEN /\ spos' = spos + 1
                 /\ depth' = depth - 1
                 /\ UNCHANGED <<outcome, sstate>>
            ELSE /\ IF eat(input, spos + 1, EXPRESSION_END) = spos + 1
                    THEN Leave([kind |-> "throw",
                                message |-> "Expecting }} at the end of inner HTML expression"],
                               spos + 1)
                    ELSE IF ~JSAccepts(substringOfBlock(input, entry, spos + 2))
                    THEN Leave([kind |-> "throw", message |-> "syntax error"], spos + 2)
                    ELSE Leave([kind |-> "ENDInnerHTML",
                                expression |-> substringOfBlock(input, entry, spos + 2),
                                start |-> entry], spos + 2)
                 /\ UNCHANGED depth
       ELSE IF Peek(input, spos) = ESCAPE
       THEN /\ spos' = IF spos + 2 > Len(input) THEN Len(input) ELSE spos + 2
            /\ UNCHANGED <<depth, outcome, sstate>>
       ELSE /\ spos' = spos + 1
            /\ UNCHANGED <<depth, outcome, sstate>>
    /\ UNCHANGED <<input, entry, called, emitted>>
    /\ UNCHANGED <<classifyVars, attrVars, parseVars, embedVars, rawVars, openVars>>

NextScan == CallOpenTag \/ CallCloseTag \/ CallInnerHTML \/ InnerHTMLStep

SpecScan == InitScan /\ [][NextScan]_vars

(***************************************************************************)
(* The tokenizer of expressions: readToken and end_readWord                *)
(***************************************************************************)
\* How many characters the source of an expression may hold.
MaxSource == 4

\* isIdentifierStart(code) of acorn, on the characters of the model
isIdentifierStart(ch) == ch \in {"a", "$", "_"}

\* isIdentifierChar(code) of acorn
isIdentifierChar(ch) == isIdentifierStart(ch) \/ isDigit(ch)

\* this.keywords: the reserved words that are made of the model's letters
keywords == {}

RECURSIVE readWordLoop(_, _)
\* do { ch = this.input.charCodeAt(++this.pos) } while (isIdentifierChar(ch)
\* || ch === 45), this.pos being p: the position the loop stops at
readWordLoop(s, p) ==
    IF p + 1 < Len(s) /\ (isIdentifierChar(Peek(s, p + 1)) \/ Peek(s, p + 1) = "-")
    THEN readWordLoop(s, p + 1) ELSE p + 1

\* end_readWord() at position p: the token finished
end_readWord(s, p) ==
    LET value == Substring(s, p, readWordLoop(s, p))
    IN  [type |-> IF value \in keywords THEN "keyword" ELSE "name",
         value |-> value, start |-> p, end |-> readWordLoop(s, p)]

RECURSIVE readNumber(_, _)
\* acorn reading the digits of a number from position p
readNumber(s, p) == IF p < Len(s) /\ isDigit(Peek(s, p)) THEN readNumber(s, p + 1) ELSE p

\* super.readToken(code) of acorn at position p, for a digit and for '-'
superReadToken(s, p) ==
    IF isDigit(Peek(s, p))
    THEN IF readNumber(s, p) < Len(s) /\ isIdentifierStart(Peek(s, readNumber(s, p)))
         THEN [type |-> "throw", value |-> <<>>, start |-> p, end |-> readNumber(s, p)]
         ELSE [type |-> "num", value |-> Substring(s, p, readNumber(s, p)),
               start |-> p, end |-> readNumber(s, p)]
    ELSE IF Peek(s, p) = "-" /\ eat(s, p + 1, "-") # p + 1
    THEN [type |-> "incDec", value |-> <<"-", "-">>, start |-> p, end |-> p + 2]
    ELSE [type |-> "plusMin", value |-> <<Peek(s, p)>>, start |-> p, end |-> p + 1]

\* readToken(code) at position p
readToken(s, p) ==
    IF isIdentifierStart(Peek(s, p)) \/ Peek(s, p) = "#" \/ Peek(s, p) = "@"
    THEN end_readWord(s, p)
    ELSE superReadToken(s, p)

SourceChars == {"a", "#", "$", "-", " ", "1"}

InitToken ==
    /\ ClassifyIdle
    /\ AttrIdle
    /\ ParseIdle
    /\ EmbedIdle
    /\ RawIdle
    /\ OpenIdle
    /\ input \in SeqsUpTo(SourceChars, MaxSource)
    /\ spos = 0
    /\ entry = 0
    /\ called = "none"
    /\ depth = 0
    /\ outcome = NoOutcome
    /\ emitted = <<>>
    /\ sstate = "token"

\* nextToken() of acorn: white space is skipped, then the end of the input
\* is reported or readToken reads one token
NextToken ==
    /\ sstate = "token"
    /\ LET p == eatWhileSpace(input, spos)
       IN  IF p >= Len(input)
           THEN /\ spos' = p
                /\ sstate' = "end"
                /\ UNCHANGED emitted
           ELSE LET token == readToken(input, p)
                IN  IF token.type = "throw"
                    THEN /\ sstate' = "thrown"
                         /\ UNCHANGED <<spos, emitted>>
                    ELSE /\ emitted' = Append(emitted, token)
                         /\ spos' = token.end
                         /\ UNCHANGED sstate
    /\ UNCHANGED <<input, entry, called, depth, outcome>>
    /\ UNCHANGED <<classifyVars, attrVars, parseVars, embedVars, rawVars, openVars>>

SpecToken == InitToken /\ [][NextToken]_vars

(***************************************************************************)
(* The loops of the parsers, each run to its end                           *)
(***************************************************************************)
InitLoops == InitParse \/ InitAttr \/ InitRaw \/ InitScan

NextLoops == NextParse \/ NextAttr \/ NextRaw \/ NextScan

\* The parser is one sequential program: a loop that can run an iteration
\* runs it.
SpecLoops == InitLoops /\ [][NextLoops]_vars /\ WF_vars(NextLoops)

(***************************************************************************)
(* Properties of the classification pass                                   *)
(***************************************************************************)
\* The tree as the pass of parseJS leaves (or has so far left) it.
Classified == IF pass = 1 THEN ast ELSE first

\* Node i has been visited by the pass of parseJS.
Visited(i) == pass = 2 \/ i < cursor

Identifiers == {i \in 1..Len(source) : source[i].type = "Identifier"}

\* The arrow functions enclosing node i.
EnclosingFunctions(i) ==
    LET enclosing == Ancestors(source, i)
    IN  {enclosing[n] : n \in {m \in 1..Len(enclosing) :
                                  isFunction(source[enclosing[m]].type)}}

\* The names of the parameters that function k declares as plain identifiers.
ParameterNames(k) ==
    {source[j].name : j \in {n \in Identifiers :
        source[n].parent = k /\ source[n].field = "params"}}

\* Identifier i is named like a parameter of an enclosing function.
Shadowed(i) == \E k \in EnclosingFunctions(i) : source[i].name \in ParameterNames(k)

\* Identifier i stands where parseJS reserves it: as a parameter, as the
\* property of a member access or as the `left` operand of its parent.
PositionReserved(i) ==
    LET p == source[i].parent
    IN  \/ isFunction(source[p].type) /\ source[i].field = "params"
        \/ source[p].type = "MemberExpression" /\ source[i].field = "property"
        \/ hasLeft(source[p].type) /\ source[i].field = "left"

\* The name and context the sigil and helper rules give to `name`.
ByRules(name) ==
    IF name[1] = "#" THEN [name |-> Tail(name), context |-> "state"]
    ELSE IF name[1] = "@" THEN [name |-> Tail(name), context |-> "variable"]
    ELSE IF name[1] = "$" THEN [name |-> Tail(name), context |-> "store"]
    ELSE [name |-> name,
          context |-> IF name \in helpers THEN "helper" ELSE "property"]

FollowsRules(i) ==
    /\ Classified[i].name = ByRules(source[i].name).name
    /\ Classified[i].context = ByRules(source[i].name).context

Untouched(i) ==
    /\ Classified[i].name = source[i].name
    /\ Classified[i].context = "unset"

\* C2: every identifier that is neither an intrinsic global nor reserved is
\* classified by its leading sigil, which is stripped: # -> state,
\* @ -> variable, $ -> store; without sigil the name is kept, with context
\* helper if the name is in the helper-name set and property otherwise.
SigilClassification ==
    \A i \in Identifiers :
        (/\ Visited(i)
         /\ source[i].name \notin jsGlobals
         /\ ~PositionReserved(i)
         /\ ~Shadowed(i)) => FollowsRules(i)

\* C2 witness: in a call #x(..) .. every sigil has been seen classified in
\* some tree; here: callee $x became store x while the argument x, a
\* helper name, became a helper.
SigilClassificationWitness ==
    /\ pass = 2
    /\ helpers = {X}
    /\ \E i, j \in Identifiers :
        /\ source[i].name = StoreX /\ source[i].field = "callee"
        /\ ast[i].name = X /\ first[i].context = "store"
        /\ source[j].name = X /\ source[j].field = "arguments"
        /\ first[j].context = "helper"

\* C3: an identifier named like a parameter of any enclosing function or
\* arrow literal, whatever the depth of that function in the ancestor chain,
\* keeps its name (sigil included) and is left without context.
ShadowedByParameter ==
    \A i \in Identifiers : (Visited(i) /\ Shadowed(i)) => Untouched(i)

\* C3 witness: #x is the callee of a call in the body of an inner arrow that
\* does not declare it; an outer arrow declares #x; the walker has visited
\* the callee and left it alone.
ShadowedByParameterWitness ==
    \E i \in Identifiers : \E outer, inner \in EnclosingFunctions(i) :
        /\ outer < inner
        /\ source[i].name = HashX /\ source[i].field = "callee"
        /\ HashX \in ParameterNames(outer)
        /\ HashX \notin ParameterNames(inner)
        /\ Visited(i) /\ Untouched(i)

\* The non-computed member accesses a.b whose object and property are
\* identifiers: <<member, a, b>>
MemberAccesses ==
    {t \in (1..Len(source)) \X Identifiers \X Identifiers :
        /\ source[t[1]].type = "MemberExpression" /\ ~source[t[1]].computed
        /\ source[t[2]].parent = t[1] /\ source[t[2]].field = "object"
        /\ source[t[3]].parent = t[1] /\ source[t[3]].field = "property"}

InPatternOf(j, k) ==
    \E n \in 1..Len(Ancestors(source, j)) :
        LET a == Ancestors(source, j)[n]
        IN  /\ source[a].type \in {"ArrayPattern", "ObjectPattern"}
            /\ source[a].parent = k /\ source[a].field = "params"

\* Identifier i is bound through a destructuring pattern of an enclosing
\* arrow function: it occurs in the pattern, or in the body under the name
\* the pattern binds.
BoundByPattern(i) ==
    \E k \in EnclosingFunctions(i) : \E j \in Identifiers :
        InPatternOf(j, k) /\ source[j].name = source[i].name

\* C5: an identifier bound through an object or array pattern in the
\* parameter list of an enclosing arrow function is left without context,
\* in the pattern and in the function body.
PatternBindingsUnset ==
    \A i \in Identifiers :
        (Visited(i) /\ BoundByPattern(i)) => Classified[i].context = "unset"

\* C6: running the pass a second time on the classified tree leaves the name
\* and the context of every identifier as the first pass left them.
ClassificationIdempotent ==
    pass = 2 =>
        \A i \in Identifiers :
            i < cursor => /\ ast[i].name = first[i].name
                          /\ ast[i].context = first[i].context

(***************************************************************************)
(* Properties of the statement parsers                                     *)
(***************************************************************************)
Ended == pstate \in {"ok", "error", "crash"}

\* C1: when the input ends with exactly one open tag X unmatched, parsing
\* has raised an error that names X, and has returned no tree.
UnclosedTagReported ==
    (Ended /\ la = Eof /\ Len(unclosed) = 1)
        => (pstate = "error" /\ unclosed[1] \in perror.names)

\* The test of a case that has none: `test && test.value` of no attribute.
NoTest == "undefined"

\* The branch tag a case was made from.
BranchOf(case) == IF case.test = NoTest THEN "otherwise" ELSE "when"

\* chooseStatement is about to meet an open tag of a branch.
MeetsBranch(t) ==
    /\ pstate = "run" /\ Top(callStack).fn = "choose"
    /\ t.kind = "open" /\ getControlName(tagName(t)) \in {"when", "otherwise"}

\* An <e:otherwise> is among the branches chooseStatement has taken.
SeenOtherwise(f) == \E i \in 1..Len(f.seen) : f.seen[i] = "otherwise"

NotABranch(t) == t.kind = "open" /\ getControlName(tagName(t)) \notin {"when", "otherwise"}

Unguarded(t) ==
    t.kind = "open" /\ getControlName(tagName(t)) = "when" /\ t.attr # "Program"

Content(t) ==
    \/ t.kind \in {"expr", "html", "junk"}
    \/ t.kind = "text" /\ t.text = "text"

ClassOf(dirs) == SelectSeq(dirs, LAMBDA d : d.prefix = "class")

OthersOf(dirs) == SelectSeq(dirs, LAMBDA d : d.prefix # "class")

\* The statement that stands for a class directive.
Synthesized(dir) ==
    IF dir.value = "null" THEN ENDAddClassStatement(dir) ELSE ENDIfClass(dir)

\* A plain element tag whose class directives have no value or an expression.
PlainWithClass(t) ==
    /\ t.kind = "open" /\ getControlName(tagName(t)) = "null"
    /\ ClassOf(t.directives) # <<>>
    /\ \A i \in 1..Len(t.directives) :
          t.directives[i].prefix = "class" => t.directives[i].value \in {"null", "Program"}

\* C9: a plain element with class directives is returned without them, its
\* body led by a conditional add-class statement for each class:NAME={expr}
\* and by a bare add-class statement for each class:NAME; handling such a
\* tag never ends in a runtime fault.
ClassDirectivesRewritten ==
    /\ (ret.type = "ENDElement" /\ PlainWithClass(ret.open))
          => /\ ret.directives = OthersOf(ret.open.directives)
             /\ ret.body.defined
             /\ LET class == ClassOf(ret.open.directives)
                IN  /\ Len(ret.body.items) >= Len(class)
                    /\ \A i \in 1..Len(class) :
                          ret.body.items[i] = Synthesized(class[i])
    /\ ~(pstate = "crash" /\ PlainWithClass(la))

(***************************************************************************)
(* Properties of attribute values                                          *)
(***************************************************************************)
\* attributeValue has returned the value of an interpolated quoted string.
Interpolated == astate = "done" /\ elements # <<>>

\* The fragments lie in source order and cover the text between the quotes.
CoversInterior ==
    /\ elements[1].from = 1
    /\ elements[Len(elements)].to = Len(raw) - 1
    /\ \A k \in 1..(Len(elements) - 1) : elements[k].to = elements[k + 1].from

\* Each fragment holds its own piece of the source: a literal its text, which
\* is not empty, an expression the code between its braces.
FragmentsFaithful ==
    \A k \in 1..Len(elements) :
        LET e == elements[k]
        IN  /\ e.type \in {"Literal", "Program"}
            /\ e.type = "Literal" =>
                  /\ e.raw = Substring(raw, e.from, e.to)
                  /\ e.raw # <<>>
                  /\ \A n \in (e.from + 1)..e.to : raw[n] # EXPRESSION_START
            /\ e.type = "Program" =>
                  /\ raw[e.from + 1] = EXPRESSION_START
                  /\ raw[e.to] = EXPRESSION_END
                  /\ e.raw = Substring(raw, e.from + 1, e.to - 1)

\* One fragment is the value itself, more make an interpolation node.
Collapsed ==
    IF Len(elements) = 1 THEN avalue = elements[1]
    ELSE /\ avalue.type = "ENDAttributeValueExpression"
         /\ avalue.elements = elements

\* C10 as stated: the fragments of an interpolated quoted value alternate
\* between literal text and expressions, lie in source order, cover the whole
\* interior, hold no empty literal, and a single fragment is the value itself.
FragmentsAlternate ==
    Interpolated =>
        /\ CoversInterior
        /\ FragmentsFaithful
        /\ Collapsed
        /\ \A k \in 1..(Len(elements) - 1) : elements[k].type # elements[k + 1].type

\* C10 as amended: the fragments lie in source order, cover the whole
\* interior and hold no empty literal; two literals are never adjacent, but
\* two expressions are when nothing separates them in the source; a single
\* fragment is the value itself.
FragmentsCoverInterior ==
    Interpolated =>
        /\ CoversInterior
        /\ FragmentsFaithful
        /\ Collapsed
        /\ \A k \in 1..(Len(elements) - 1) :
              ~(elements[k].type = "Literal" /\ elements[k + 1].type = "Literal")

\* C10 witness: the value "b {b}b" has given literal, expression, literal,
\* wrapped in an interpolation node.
FragmentsCoverInteriorWitness ==
    /\ Interpolated
    /\ Len(elements) = 3
    /\ elements[1].type = "Literal" /\ elements[1].raw = <<"b", " ">>
    /\ elements[2].type = "Program" /\ elements[2].raw = <<"b">>
    /\ elements[3].type = "Literal" /\ elements[3].raw = <<"b">>
    /\ avalue.type = "ENDAttributeValueExpression"

(***************************************************************************)
(* Properties of unquoted attribute values                                 *)
(***************************************************************************)
\* attributeValue has returned the literal of an unquoted value.
Unquoted == astate = "done" /\ elements = <<>> /\ ~isQuote(raw[1])

\* The number a run of digits v writes.
Written(v) ==
    LET weight(k) == power10(Len(v) - k)
        S == 1..Len(v)
        sum[T \in SUBSET S] ==
            IF T = {} THEN 0
            ELSE LET k == CHOOSE x \in T : TRUE
                 IN  digitValue(v[k]) * weight(k) + sum[T \ {k}]
    IN  sum[S]

\* v is digits, one dot, and at least one digit: 4.0, .40
Fraction(v) ==
    /\ Cardinality({k \in 1..Len(v) : v[k] = "."}) = 1
    /\ \A k \in 1..Len(v) : isDigit(v[k]) \/ v[k] = "."
    /\ isDigit(v[Len(v)])

\* The value v is not changed: the literal holds the string v.
KeptAsString(v) == avalue.value.kind = "string" /\ avalue.value.text = v

\* C11 as stated: an all-digit value becomes that number, true and false
\* the booleans, null null, undefined the undefined value, and every other
\* value is kept as the string it is.
UnquotedCoercion ==
    Unquoted =>
        IF allDigits(raw)
        THEN /\ avalue.value.kind = "number"
             /\ avalue.value.num = Written(raw) /\ avalue.value.den = 1
        ELSE IF raw \in {Keywords.true, Keywords.false, Keywords.null, Keywords.undefined}
        THEN avalue.value.kind =
                (CASE raw = Keywords.true -> "true" [] raw = Keywords.false -> "false"
                   [] raw = Keywords.null -> "null"
                   [] raw = Keywords.undefined -> "undefined")
        ELSE KeptAsString(raw)

\* C11 as amended: as stated, but a value made of digits, one dot and at
\* least one digit after the dot becomes the decimal number it writes.
UnquotedCoercionWithFractions ==
    Unquoted =>
        IF allDigits(raw)
        THEN /\ avalue.value.kind = "number"
             /\ avalue.value.num = Written(raw) /\ avalue.value.den = 1
        ELSE IF Fraction(raw)
        THEN LET digits == SelectSeq(raw, isDigit)
                 places == Len(raw) - CHOOSE k \in 1..Len(raw) : raw[k] = "."
             IN  /\ avalue.value.kind = "number"
                 /\ avalue.value.num * power10(places) = Written(digits) * avalue.value.den
        ELSE IF raw \in {Keywords.true, Keywords.false, Keywords.null, Keywords.undefined}
        THEN avalue.value.kind =
                (CASE raw = Keywords.true -> "true" [] raw = Keywords.false -> "false"
                   [] raw = Keywords.null -> "null"
                   [] raw = Keywords.undefined -> "undefined")
        ELSE KeptAsString(raw)

\* C11 witness: the unquoted value 40 has become the number 40.
UnquotedCoercionWitness ==
    /\ Unquoted
    /\ raw = <<"4", "0">>
    /\ avalue.value.kind = "number" /\ avalue.value.num = 40 /\ avalue.value.den = 1

(***************************************************************************)
(* Properties of embedded expressions                                      *)
(***************************************************************************)
\* The line L and the column C of the document where the code starts.
EmbeddedAt == lineColumn(document, epos + 1)

\* C12: when the expression embedded at line L, column C fails to parse, an
\* error on the first line of the code is reported at column C + its column,
\* an error on a later line at its own column, and both at its line moved by
\* L (line 1 of the code is line L).
ErrorRebased ==
    (estate = "error" /\ eoffset # NoPosition) =>
        /\ eloc.line = einner.line + EmbeddedAt.line - 1
        /\ einner.line = 1 => eloc.column = EmbeddedAt.column + einner.column
        /\ einner.line > 1 => eloc.column = einner.column

\* C12 witness: the code on line 2, column 1 of the document fails on its
\* second line.
ErrorRebasedWitness ==
    /\ estate = "error" /\ eoffset # NoPosition
    /\ EmbeddedAt = [line |-> 2, column |-> 1]
    /\ einner = [line |-> 2, column |-> 1]
    /\ eloc = [line |-> 3, column |-> 1]

\* C13: every node of a parse that succeeded has offsets of the document,
\* 0 <= start <= end <= length(text), and the offsets of a node of an
\* embedded expression are the offsets in its code plus the offset where
\* the code starts, added once.
OffsetsInDocument ==
    estate = "done" =>
        \A k \in 1..Len(enodes) :
            /\ 0 <= enodes[k].start /\ enodes[k].start <= enodes[k].end
            /\ enodes[k].end <= Len(document)
            /\ eoffset # NoPosition =>
                  /\ enodes[k].start = enodes[k].inner[1] + epos + 1
                  /\ enodes[k].end = enodes[k].inner[2] + epos + 1

\* C13 witness: a node at 1..2 of the code that starts at offset 3 of the
\* document is at 4..5.
OffsetsInDocumentWitness ==
    /\ estate = "done"
    /\ epos = 2
    /\ \E k \in 1..Len(enodes) :
          enodes[k].inner = <<1, 2>> /\ enodes[k].start = 4 /\ enodes[k].end = 5

(***************************************************************************)
(* Properties of close tags and of the bodies that are not kept            *)
(***************************************************************************)
\* The innermost tag still awaiting its close tag.
Awaited == unclosed[Len(unclosed)]

\* C14: whenever a body meets a close tag whose name is not the name of the
\* innermost tag still awaiting its close tag, parsing throws an error that
\* names the tag met and the tag awaited; the close tag is never passed
\* over.
MismatchedCloseReported ==
    [][(pstate = "run" /\ unclosed # <<>> /\ la'.kind = "close"
            /\ tagName(la') # Awaited)
        => (pstate' = "error" /\ perror'.message = "Unexpected closing tag"
              /\ perror'.names = {tagName(la'), Awaited})]_vars

\* The parser meets the open tag of a conditional where it reads statements.
MeetsConditional ==
    /\ pstate = "run"
    /\ Top(callStack).fn = "program" \/ Top(callStack).consumer
    /\ la'.kind = "open" /\ getControlName(tagName(la')) = "if"

\* C15: a conditional whose tag has no `test` attribute, a `test` without
\* value, or a `test` with a literal or interpolated value makes parsing
\* throw a parse error with a location: never a runtime fault, never a
\* conditional.
ConditionalNeedsTest ==
    [][(MeetsConditional /\ la'.attr # "Program")
        => (pstate' = "error" /\ perror'.message = "Expecting test attribute")]_vars

\* The parser reads the body of a partial reference whose markup is
\* balanced so far: the reference is the one tag awaiting its close tag.
InBalancedPartial ==
    /\ pstate = "run"
    /\ Top(callStack).fn = "tagBody" /\ Top(callStack).owner = "partial"
    /\ unclosed = <<Partial>>

\* C19: the content of a partial reference is ignored: when its body is
\* balanced markup, the close tag of the reference ends the statement, the
\* parse goes on, and the statement returned is the reference without body.
PartialContentIgnored ==
    [][(InBalancedPartial /\ la' = Close(Partial))
        => (pstate' = "run" /\ ret'.type = "ENDPartialStatement"
              /\ "body" \notin DOMAIN ret')]_vars

(***************************************************************************)
(* Properties of formatting white space                                    *)
(***************************************************************************)
\* tagBody is about to read the text lexeme la'.
ReadsText == pstate = "run" /\ Top(callStack).fn = "tagBody" /\ la'.kind = "text"

\* The items collected so far by the tagBody in progress.
Collected == Top(callStack).items

\* The step appends the items `more` to the items of the tagBody in progress.
Collects(more) ==
    /\ pstate' = "run" /\ Len(callStack') = Len(callStack)
    /\ Top(callStack').items = Collected \o more

PlainText == Item("Literal", "text")

\* The step returns the body of the tagBody in progress to its caller.
ReturnsBody ==
    /\ pstate = "run" /\ Top(callStack).fn = "tagBody"
    /\ Len(Top(callStack).tagStack) = 1
    /\ la'.kind = "close" /\ pstate' = "run"
    /\ "body" \in DOMAIN ret'

At(p, piece) ==
    p + Len(piece) <= Len(rawText) /\ Substring(rawText, p, p + Len(piece)) = piece

\* A character that cannot start a tag name, or no character, follows the
\* n characters at rawPos.
NoNameAfter(n) ==
    rawPos + n >= Len(rawText) \/ ~nameStartChar(Peek(rawText, rawPos + n))

FirstClose ==
    LET closes == {p \in 0..Len(rawText) : At(p, <<"<", "/">> \o RawOpen \o <<">">>)}
    IN  IF closes = {} THEN Len(rawText)
        ELSE CHOOSE p \in closes : \A q \in closes : p <= q

\* C18: the content captured is the text up to the first close tag of the
\* name of the open tag; open tags, close tags of other names and malformed
\* "</" in that text never make tagText fail or stop early.
RawContentCaptured ==
    /\ rawState = "done" => rawValue = Substring(rawText, 0, FirstClose)
    /\ rawState = "error" => FirstClose = Len(rawText)

(***************************************************************************)
(* Properties of open tags                                                 *)
(***************************************************************************)
\* The static name of attr is prefix:local with a prefix of the whitelist.
NamesDirective(attr) ==
    /\ attr.name.type = "Identifier"
    /\ \E pfx \in directives :
          /\ Len(attr.name.name) > Len(pfx)
          /\ SubSeq(attr.name.name, 1, Len(pfx) + 1) = pfx \o <<":">>

NamesAttribute(attr) == ~NamesDirective(attr)

\* The attribute a directive of the tag was made of.
Promoted(attr, dir) ==
    /\ attr.name.type = "Identifier"
    /\ attr.name.name = dir.prefix \o <<":">> \o dir.name
    /\ attr.value = dir.value

\* C16: of the attributes openTag consumed, those whose static name is
\* prefix:local with a prefix of the whitelist are the directives of the
\* tag, with that prefix, local name and value, and all others, names with
\* an unknown prefix and dynamic names included, are its attributes; both
\* lists are in source order, and no attribute is lost or duplicated.
AttributesPartitioned ==
    openState = "done" =>
        LET promoted == SelectSeq(consumedAttributes, NamesDirective)
        IN  /\ parsedTag.attributes = SelectSeq(consumedAttributes, NamesAttribute)
            /\ Len(parsedTag.directives) = Len(promoted)
            /\ \A k \in 1..Len(promoted) :
                  /\ Promoted(promoted[k], parsedTag.directives[k])
                  /\ parsedTag.directives[k].prefix \in directives

\* C16 witness: of x:a="..." and on:a={...}, the first is the attribute and
\* the second the directive on, a of the tag.
AttributesPartitionedWitness ==
    /\ openState = "done"
    /\ Len(consumedAttributes) = 2
    /\ consumedAttributes[1].name.name = <<"x", ":", "a">>
    /\ parsedTag.attributes = <<consumedAttributes[1]>>
    /\ Len(parsedTag.directives) = 1
    /\ parsedTag.directives[1].prefix = <<"o", "n">>
    /\ parsedTag.directives[1].name = <<"a">>
    /\ parsedTag.directives[1].value = "Program"


(***************************************************************************)
(* Properties of the positions that reserve an identifier                  *)
(***************************************************************************)
\* The identifiers b of the computed member accesses a[b].
ComputedProperties ==
    {i \in Identifiers :
        /\ source[source[i].parent].type = "MemberExpression"
        /\ source[source[i].parent].computed /\ source[i].field = "property"}

LeftOperands ==
    {i \in Identifiers :
        /\ source[source[i].parent].type \in {"BinaryExpression", "LogicalExpression"}
        /\ source[i].field = "left"}

HasSigil(i) == source[i].name[1] \in {"#", "@", "$"}

InBody == pstate = "run" /\ Top(callStack).fn = "tagBody" /\ la'.kind # "eof"

\* The innermost tag of the tag stack of the tagBody in progress.
Innermost == Top(callStack).tagStack[Len(Top(callStack).tagStack)]

\* The step leaves the tag stack of the tagBody in progress as `stack`.
Stacks(stack) ==
    /\ pstate' = "run" /\ Len(callStack') = Len(callStack)
    /\ Top(callStack').tagStack = stack

\* C21: at every position of a body, tagBody takes the first alternative
\* that matches, in the order: close tag of the innermost stacked tag (pop,
\* and leave the loop when the stack is empty), open tag, block {{ .. }},
\* expression, text, ignorable section; where none matches it throws
\* 'Unexpected token'; every iteration that does not throw consumes the
\* lexeme it stands at.
BodyAlternativesInOrder ==
    [][InBody =>
        /\ (la'.kind = "close" /\ tagName(la') = Innermost)
              => IF Len(Top(callStack).tagStack) > 1
                 THEN /\ Stacks(SubSeq(Top(callStack).tagStack, 1,
                                       Len(Top(callStack).tagStack) - 1))
                      /\ Collects(<<>>)
                 ELSE pstate' = "run" => Len(callStack') < Len(callStack)
        /\ (la'.kind = "open" /\ pstate' = "run")
              => \/ Len(callStack') > Len(callStack)
                 \/ Stacks(Append(Top(callStack).tagStack, tagName(la')))
                 \/ /\ Stacks(Top(callStack).tagStack)
                    /\ \/ Collects(<<>>)
                       \/ \E type \in {"ENDElement", "ENDIfStatement", "ENDPartialStatement",
                                       "ENDAttributeStatement", "ENDImport"} :
                             Collects(<<Item(type, "")>>)
        /\ isInnerHTML(la') => Collects(<<Item("ENDInnerHTML", "")>>)
        /\ (isExpression(la') /\ ~isInnerHTML(la')) => Collects(<<Item("Program", "")>>)
        /\ la'.kind = "text"
              => Collects(<<>>) \/ Collects(<<Item("Literal", la'.text)>>)
        /\ la'.kind = "ignored"
              => Collects(<<>>) /\ Stacks(Top(callStack).tagStack)
        /\ la'.kind = "junk"
              => pstate' = "error" /\ perror'.message = "Unexpected token"
        /\ pstate' = "run" => consumed' = consumed + 1]_vars

\* C21 witness: a tagBody has read a block {{ .. }} and holds it as its last
\* item, an inner-HTML node.
BodyAlternativesInOrderWitness ==
    /\ pstate = "run" /\ Top(callStack).fn = "tagBody"
    /\ la.kind = "html"
    /\ Top(callStack).items # <<>>
    /\ Top(callStack).items[Len(Top(callStack).items)] = Item("ENDInnerHTML", "")


\* C25: a tagBody that was given consumeTag hands every open tag of its body
\* to it and pushes none on its tag stack, also when consumeTag returns
\* nothing, so its stack holds the opening tag only and the first close tag
\* it reads itself ends the body; a tagBody without consumeTag pushes every
\* open tag and pops on the close tag of the tag pushed last.
ConsumerTakesOpenTags ==
    [][InBody =>
        /\ \A k \in 1..Len(callStack) :
              (callStack[k].fn = "tagBody" /\ callStack[k].consumer)
                  => Len(callStack[k].tagStack) = 1
        /\ (Top(callStack).consumer /\ la'.kind = "open")
              => /\ pstate' = statement(callStack, la').state
                 /\ callStack' = statement(callStack, la').stack
                 /\ pstate' = "run"
                      => callStack'[Len(callStack)].tagStack = Top(callStack).tagStack
        /\ (Top(callStack).consumer /\ la'.kind = "close" /\ pstate' = "run")
              => Len(callStack') < Len(callStack)
        /\ (~Top(callStack).consumer /\ la'.kind = "open")
              => Stacks(Top(callStack).tagStack \o <<tagName(la')>>)
        /\ (~Top(callStack).consumer /\ la'.kind = "close" /\ pstate' = "run"
              /\ Len(Top(callStack).tagStack) > 1)
              => /\ tagName(la') = Innermost
                 /\ Stacks(SubSeq(Top(callStack).tagStack, 1,
                                  Len(Top(callStack).tagStack) - 1))]_vars

\* C25 witness: a tagBody with consumeTag has handed over a self-closing
\* e:choose, for which the consumer returns nothing; its tag stack still
\* holds the opening tag alone and it has collected no item for the tag.
ConsumerTakesOpenTagsWitness ==
    /\ pstate = "run" /\ Top(callStack).fn = "tagBody" /\ Top(callStack).consumer
    /\ la = SelfClosed(Choose, "absent")
    /\ Top(callStack).tagStack = <<Div>>
    /\ Top(callStack).items = <<>>

\* A tag handled as a plain element whose class directives, if any, have no
\* value or an expression.
PlainElement(t) ==
    /\ t.kind = "open" /\ getControlName(tagName(t)) = "null"
    /\ \A i \in 1..Len(t.directives) :
          t.directives[i].prefix = "class" => t.directives[i].value \in {"null", "Program"}

\* C26: for every tag handled as a plain element, self-closing or not, with
\* or without directives, elementStatement returns an element without class
\* directive, with the other directives in their order, whose body is a list
\* led by one statement for each class directive, in the order of the
\* directives; it never ends in a runtime fault.
ElementAlwaysReturned ==
    /\ (ret.type = "ENDElement" /\ PlainElement(ret.open))
          => /\ ClassOf(ret.directives) = <<>>
             /\ ret.directives = OthersOf(ret.open.directives)
             /\ ret.body.defined
             /\ Len(ret.body.items) >= Len(ClassOf(ret.open.directives))
             /\ SubSeq(ret.body.items, 1, Len(ClassOf(ret.open.directives)))
                  = [i \in 1..Len(ClassOf(ret.open.directives)) |->
                        Synthesized(ClassOf(ret.open.directives)[i])]
    /\ ~(pstate = "crash" /\ PlainElement(la))


(***************************************************************************)
(* Properties of the scanner at a position                                 *)
(***************************************************************************)
RECURSIVE BlockEnd(_, _, _, _)
\* Where the block whose text starts at position k of s ends, reading one
\* character at a time with `open` braces open, inside a string quoted by
\* `quote` ("" outside strings): at the first EXPRESSION_END met with no
\* brace open outside strings and escapes, which is followed by another
\* ("end") or not ("single"), or nowhere ("eof").
BlockEnd(s, k, open, quote) ==
    IF k >= Len(s) THEN [kind |-> "eof", at |-> Len(s)]
    ELSE IF Peek(s, k) = ESCAPE THEN BlockEnd(s, k + 2, open, quote)
    ELSE IF quote # ""
         THEN BlockEnd(s, k + 1, open, IF Peek(s, k) = quote THEN "" ELSE quote)
    ELSE IF isQuote(Peek(s, k)) THEN BlockEnd(s, k + 1, open, Peek(s, k))
    ELSE IF Peek(s, k) = EXPRESSION_START THEN BlockEnd(s, k + 1, open + 1, "")
    ELSE IF Peek(s, k) # EXPRESSION_END THEN BlockEnd(s, k + 1, open, "")
    ELSE IF open > 0 THEN BlockEnd(s, k + 1, open - 1, "")
    ELSE IF k + 1 < Len(s) /\ Peek(s, k + 1) = EXPRESSION_END
         THEN [kind |-> "end", at |-> k]
    ELSE [kind |-> "single", at |-> k]

\* innerHTML was called where a block opens, and has returned or thrown.
BlockRead ==
    /\ called = "innerHTML" /\ sstate \in {"returned", "thrown"}
    /\ entry + 1 < Len(input)
    /\ Peek(input, entry) = EXPRESSION_START /\ Peek(input, entry + 1) = EXPRESSION_START

\* C28: a block opened by two EXPRESSION_START ends at the first pair of
\* EXPRESSION_END met with no brace open, outside strings and escapes: the
\* node returned holds the text between the doubled delimiters and the
\* scanner stands after the pair (or the JS parser rejects that text); a
\* single EXPRESSION_END with no brace open, or the end of the input before
\* the block closes, makes innerHTML throw.
BlockEndsAtFirstPair ==
    BlockRead =>
        LET end == BlockEnd(input, entry + 2, 0, "")
            between == Substring(input, entry + 2, end.at)
        IN  /\ end.kind = "end"
                  => /\ spos = end.at + 2
                     /\ IF JSAccepts(between)
                        THEN /\ sstate = "returned" /\ outcome.kind = "ENDInnerHTML"
                             /\ outcome.expression = between
                        ELSE sstate = "thrown"
            /\ end.kind \in {"single", "eof"} => sstate = "thrown"

\* C28 witness: innerHTML has returned the node of {{'}'}}, whose expression
\* is the quoted brace.
BlockEndsAtFirstPairWitness ==
    /\ BlockRead /\ sstate = "returned"
    /\ outcome.kind = "ENDInnerHTML"
    /\ outcome.expression = <<"'", "}", "'">>
    /\ spos = Len(input)

\* C30: when openTag, closeTag or innerHTML returns nothing, the scanner
\* stands where it stood when the function was called.
BacktrackingClean ==
    (sstate = "returned" /\ outcome.kind = "none") => spos = entry

\* C30 witness: openTag, called at "</", has eaten "<", found no name and
\* returned nothing; the scanner is back at the position of the call, which
\* is not the start of the text.
BacktrackingCleanWitness ==
    /\ called = "openTag" /\ sstate = "returned" /\ outcome.kind = "none"
    /\ entry = 1 /\ spos = entry
    /\ entry + 1 < Len(input)
    /\ Peek(input, entry) = "<" /\ Peek(input, entry + 1) = "/"


(***************************************************************************)
(* Properties of the tokenizer                                             *)
(***************************************************************************)
\* C24: every run that starts with an identifier start, '#', '@' or '$' and
\* goes on through identifier characters and dashes inside it is one name
\* token: a name token starts with such a character, holds identifier
\* characters and dashes only, is not followed by an identifier character,
\* and never ends with a dash.
NameTokensWhole ==
    \A k \in 1..Len(emitted) :
        emitted[k].type = "name" =>
            LET value == emitted[k].value
            IN  /\ isIdentifierStart(value[1]) \/ value[1] \in {"#", "@"}
                /\ \A c \in 2..Len(value) : isIdentifierChar(value[c]) \/ value[c] = "-"
                /\ emitted[k].end < Len(input)
                      => ~isIdentifierChar(Peek(input, emitted[k].end))
                /\ value[Len(value)] # "-"


(***************************************************************************)
(* Properties of the loops                                                 *)
(***************************************************************************)
\* A loop of tagBody, emptyBody, chooseStatement or of the program, of
\* attributeValueExpression, of tagText or of innerHTML is running.
Looping ==
    \/ pstate = "run"
    \/ astate = "interpolate"
    \/ rawState = "text"
    \/ sstate = "inner"

\* The iteration moves the scanner forward, leaves its loop or throws.
Progress ==
    /\ pstate = "run"
          => \/ consumed' > consumed
             \/ Len(callStack') < Len(callStack)
             \/ pstate' # "run"
    /\ astate = "interpolate" => (apos' > apos \/ astate' # "interpolate")
    /\ rawState = "text" => (rawPos' > rawPos \/ rawState' # "text")
    /\ sstate = "inner" => (spos' > spos \/ sstate' # "inner")

\* C27: every iteration of the loops of tagBody, tagText, emptyBody,
\* chooseStatement, attributeValueExpression and innerHTML moves the scanner
\* forward, leaves the loop or throws, and parsing ends: from some point on
\* no loop is running.
LoopsTerminate == [][Progress]_vars /\ <>[]~Looping

\* C27 witness: tagText has run iterations that moved the scanner one
\* character at a time and over a close tag of another name, and has
\* returned the text of the block.
LoopsTerminateWitness ==
    /\ rawState = "done"
    /\ rawPos = Len(rawText)
    /\ rawValue = <<"a", "<", "/", "d", ">">>

====
